---- MODULE Spec2Model ----
(***************************************************************************)
(* A model of librq (src/librq.c): the client library of the RQ message    *)
(* queue.  One client (rq_t) with its controller list, its subscriptions   *)
(* and its message table, driven by the application's API calls and by the *)
(* reactor's connect/read/write callbacks.                                 *)
(*                                                                         *)
(* Every C function is an operator from a client state (a record) to the   *)
(* client state it leaves.  A failed assert() ends the process: err names   *)
(* the function and the source line of the first assertion that failed,    *)
(* and nothing that is computed after it is kept.                          *)
(***************************************************************************)
EXTENDS Integers, Sequences, FiniteSets, TLC

(***************************************************************************)
(* Bounds of the model.                                                    *)
(***************************************************************************)
\* controllers the application adds
MaxConns == 2
\* messages the application and the peer keep in flight at once
MaxMsgs == 1
\* blocks that may be waiting in an outbuf when new work is accepted
MaxPending == 0
\* capacity of the message table after rq_init (DEFAULT_MSG_ARRAY of rq.h,
\* which rq_init only requires to be > 0)
DEFAULT_MSG_ARRAY == 1
\* the most messages the table holds in TableSpec
MaxTable == 3
\* the most units one read callback receives in StreamSpec
MaxRead == 2

(***************************************************************************)
(* Program constants.                                                      *)
(***************************************************************************)
INVALID_HANDLE == -1
ECONNREFUSED == 111
ETIMEDOUT == 110

\* a NULL pointer
NIL == [nil |-> TRUE]

\* an expbuf holding the bytes b
Buf(b) == [b |-> b]

\* the fd socket() returns for controller c
Socket(c) == c + 2

\* (short int) v on a 16 bit two's complement short
ShortInt(v) == LET w == v % 65536 IN IF w >= 32768 THEN w - 65536 ELSE w

VARIABLES
  connlist,   \* rq->connlist: the controllers in list order (head first)
  conns,      \* the rq_conn_t records, by controller (arrival order)
  queues,     \* rq->queues: the subscriptions, in list order
  msg_list,   \* rq->msg_list: slot -> message or NIL
  msg_max,    \* rq->msg_max
  msg_used,   \* rq->msg_used
  msg_next,   \* rq->msg_next
  err,        \* "ok", or the assertion (or fault) that ended the process
  cleaned,    \* rq_cleanup has run
  last,       \* the operation that led to this state, with its inputs
  events      \* what that operation did that others see, in order:
              \* rq_senddata calls and user callbacks

vars == <<connlist, conns, queues, msg_list, msg_max, msg_used, msg_next,
          err, cleaned, last, events>>

(***************************************************************************)
(* The client state as one record, and the sequencing of statements.       *)
(***************************************************************************)
St ==
  [connlist |-> connlist, conns |-> conns, queues |-> queues,
   msg_list |-> msg_list, msg_max |-> msg_max, msg_used |-> msg_used,
   msg_next |-> msg_next, err |-> err,
   cleaned |-> cleaned, events |-> <<>>]

\* assert(cond) at the place named where; the first failure is the one kept
Chk(s, cond, where) ==
  IF s.err = "ok" /\ ~cond THEN [s EXCEPT !.err = where] ELSE s

\* the statement leading to t, reached from s
Then(s, t) == IF s.err # "ok" THEN s ELSE t

\* a fault (a crash that is no assert) at the place named where
Fault(s, where) == Chk(s, FALSE, where)

\* the event e, appended to the operation's record
Emit(s, e) == [s EXCEPT !.events = Append(@, e)]

(***************************************************************************)
(* Connections.                                                            *)
(***************************************************************************)
\* the connection's field f, set to v
SetConn(s, c, f, v) == [s EXCEPT !.conns[c][f] = v]

\* ll_remove + ll_push_tail
Rotate(list, c) == Append(SelectSeq(list, LAMBDA x : x # c), c)

\* rq_connect that connects to the tail of the list
ConnectTail(s) ==
  IF s.err # "ok" \/ s.connlist = <<>> THEN s
  ELSE IF s.conns[s.connlist[Len(s.connlist)]].shutdown = 0
          /\ s.conns[s.connlist[Len(s.connlist)]].closing = 0
          /\ ~s.conns[s.connlist[Len(s.connlist)]].connect_event
          /\ s.conns[s.connlist[Len(s.connlist)]].active = 0
    THEN [s EXCEPT
            !.conns[s.connlist[Len(s.connlist)]].handle =
               Socket(s.connlist[Len(s.connlist)]),
            !.conns[s.connlist[Len(s.connlist)]].connect_event = TRUE]
    ELSE s

\* rq_connect that registers the connect event and keeps no socket
ConnectNoSocket(s) ==
  IF s.err # "ok" \/ s.connlist = <<>> THEN s
  ELSE IF s.conns[Head(s.connlist)].shutdown = 0
          /\ s.conns[Head(s.connlist)].closing = 0
          /\ ~s.conns[Head(s.connlist)].connect_event
          /\ s.conns[Head(s.connlist)].active = 0
    THEN SetConn(s, Head(s.connlist), "connect_event", TRUE)
    ELSE s

\* rq_connect: start a non-blocking connect to the head of the list, if the
\* head is neither shut down, closing, connecting nor active.  The hostname
\* is taken to parse and connect() to return EINPROGRESS.
rq_connect(s) ==
  LET c == Head(s.connlist)
      conn == s.conns[c]
      a1 == Chk(s, ~conn.read_event, "rq_connect:239")
      a2 == Chk(a1, ~conn.write_event, "rq_connect:240")
      a3 == Chk(a2, conn.handle = INVALID_HANDLE, "rq_connect:242")
      a4 == Chk(a3, conn.inbuf = NIL, "rq_connect:260")
      a5 == Chk(a4, conn.outbuf # NIL, "rq_connect:261")
      a6 == Chk(a5, conn.readbuf = NIL, "rq_connect:262")
      a7 == Chk(a6, conn.data = NIL, "rq_connect:264")
  IN  IF s.err # "ok" THEN s
      ELSE IF s.connlist = <<>> THEN Fault(s, "rq_connect:230")
      ELSE IF conn.shutdown = 0 /\ conn.closing = 0 /\ ~conn.connect_event
              /\ conn.active = 0
        THEN [a7 EXCEPT !.conns[c].handle = Socket(c),
                        !.conns[c].connect_event = TRUE]
        ELSE s

\* the messages of the table that came in on connection c
PendingOn(s, c) ==
  {i \in 0 .. s.msg_max - 1 : s.msg_list[i] # NIL /\ s.msg_list[i].conn = c}

\* rq_conn_closed: the connection to the controller is lost.  Close the
\* socket, free the buffers, move the connection to the tail of the list and
\* connect to the new head.
rq_conn_closed(s, c) ==
  LET conn == s.conns[c]
      a1 == Chk(s, conn.handle # INVALID_HANDLE, "rq_conn_closed:290")
      a2 == Chk(a1, conn.readbuf # NIL, "rq_conn_closed:295")
      a3 == Chk(a2, conn.sendbuf # NIL, "rq_conn_closed:300")
      a4 == Chk(a3, conn.outbuf # NIL, "rq_conn_closed:311")
      a5 == Chk(a4, Len(s.connlist) > 0, "rq_conn_closed:323")
      a6 == Chk(a5, ~conn.connect_event, "rq_conn_closed:338")
      a7 == Chk(a6, ~(s.msg_used > 0 /\ PendingOn(s, c) # {}),
                "rq_conn_closed:346")
      s1 == [a7 EXCEPT !.conns[c] =
               [@ EXCEPT !.handle = INVALID_HANDLE, !.readbuf = NIL,
                         !.sendbuf = NIL, !.inbuf = NIL,
                         !.outbuf = Buf(<<>>), !.data = NIL,
                         !.read_event = FALSE, !.write_event = FALSE,
                         !.active = 0, !.closing = 0],
             !.connlist = IF Len(@) > 1 THEN Rotate(@, c) ELSE @]
  IN  IF s.err # "ok" THEN s ELSE rq_connect(s1)

\* rq_senddata: put the data in the outbuf and make sure a write event is
\* set.  The outbuf is kept as the sequence of the blocks of data added.
rq_senddata(s, c, data) ==
  LET conn == s.conns[c]
      a1 == Chk(s, conn.handle # INVALID_HANDLE, "rq_senddata:368")
      a2 == Chk(a1, conn.outbuf # NIL, "rq_senddata:371")
      s1 == [a2 EXCEPT !.conns[c].outbuf = Buf(Append(conn.outbuf.b, data)),
                       !.conns[c].write_event = TRUE]
  IN  IF s.err # "ok" \/ conn.outbuf = NIL THEN a2
      ELSE Emit(s1, [ev |-> "send", conn |-> c, data |-> data])

\* rq_send_closing
rq_send_closing(s, c) == rq_senddata(s, c, <<[cmd |-> "CLOSING"]>>)

\* rq_shutdown that takes no message to be pending
NoPending(s) == 0

\* rq_shutdown, line 454: the messages still being processed
Pending(s) == s.msg_used

\* assert(conn->closing == 0) at the place named where
NotClosing(s, c, where) == Chk(s, s.conns[c].closing = 0, where)

\* rq_shutdown, lines 425-441: the connection is still connecting; remove
\* the connect event and close
ShutdownConnecting(s, c) ==
  LET conn == s.conns[c]
      k1 == Chk(s, conn.closing = 0, "rq_shutdown:426")
      k2 == Chk(k1, conn.connect_event, "rq_shutdown:429")
  IN  NotClosing(rq_conn_closed(SetConn(k2, c, "connect_event", FALSE), c),
                 c, "rq_shutdown:433")

\* rq_shutdown, lines 442-452: the connection is active; send CLOSING and
\* mark it closing
ShutdownActive(s, c) ==
  LET conn == s.conns[c]
      b1 == Chk(s, conn.active > 0, "rq_shutdown:443")
      b2 == Chk(b1, ~conn.connect_event, "rq_shutdown:444")
      b3 == Chk(b2, conn.read_event, "rq_shutdown:445")
      b4 == Chk(rq_send_closing(b3, c), conn.closing = 0, "rq_shutdown:450")
  IN  SetConn(b4, c, "closing", conn.closing + 1)

\* rq_shutdown, lines 454-468: close the connection unless messages are
\* still being processed
ShutdownClose(s, c) ==
  NotClosing(rq_conn_closed(s, c), c, "rq_shutdown:459")

\* the loop of rq_shutdown, about to take the entry at position pos of the
\* list (ll_next); ll_finish + ll_start set pos back to 1
RECURSIVE ShutdownLoop(_, _)
ShutdownLoop(s, pos) ==
  IF s.err # "ok" \/ pos > Len(s.connlist) THEN s
  ELSE
    LET c == s.connlist[pos]
        conn == s.conns[c]
        s1 == SetConn(s, c, "shutdown", conn.shutdown + 1)
    IN  IF conn.shutdown # 0 THEN ShutdownLoop(s, pos + 1)
        ELSE IF conn.handle = INVALID_HANDLE THEN ShutdownLoop(s1, pos + 1)
        ELSE IF conn.active = 0
          THEN ShutdownLoop(ShutdownConnecting(s1, c), 1)
        ELSE IF Pending(s) = 0
          THEN ShutdownLoop(ShutdownClose(ShutdownActive(s1, c), c), 1)
        ELSE ShutdownLoop(ShutdownActive(s1, c), pos + 1)

\* rq_shutdown: tell every connection that it is shutting down
rq_shutdown(s) == ShutdownLoop(s, 1)

\* what rq_cleanup asserts of one connection (lines 490-512)
CleanupConn(s, c) ==
  LET conn == s.conns[c]
      a1 == Chk(s, conn.handle = INVALID_HANDLE, "rq_cleanup:490")
      a2 == Chk(a1, conn.active = 0, "rq_cleanup:491")
      a3 == Chk(a2, conn.closing = 0, "rq_cleanup:492")
      a4 == Chk(a3, conn.shutdown > 0, "rq_cleanup:493")
      a5 == Chk(a4, ~conn.read_event, "rq_cleanup:495")
      a6 == Chk(a5, ~conn.write_event, "rq_cleanup:496")
      a7 == Chk(a6, ~conn.connect_event, "rq_cleanup:497")
      a8 == Chk(a7, conn.outbuf # NIL, "rq_cleanup:499")
      a9 == Chk(a8, conn.inbuf = NIL, "rq_cleanup:510")
      a10 == Chk(a9, conn.readbuf = NIL, "rq_cleanup:511")
      a11 == Chk(a10, conn.data = NIL, "rq_cleanup:512")
  IN  SetConn(a11, c, "outbuf", NIL)

\* the loop of rq_cleanup over the connection list (ll_pop_head)
RECURSIVE CleanupConns(_)
CleanupConns(s) ==
  IF s.err # "ok" \/ s.connlist = <<>> THEN s
  ELSE CleanupConns(CleanupConn([s EXCEPT !.connlist = Tail(@)],
                                Head(s.connlist)))

\* what rq_cleanup does with the message table (lines 524-530): every slot
\* is asserted empty while msg_max is counted down to 0, and the table is
\* freed
CleanupMsgs(s) ==
  LET a1 == Chk(s, s.msg_used = 0, "rq_cleanup:524")
      a2 == Chk(a1, \A i \in 0 .. s.msg_max - 1 : s.msg_list[i] = NIL,
                "rq_cleanup:527")
  IN  IF a2.err # "ok" THEN a2
      ELSE [s EXCEPT !.msg_max = 0, !.msg_list = [i \in {} |-> NIL]]

\* rq_cleanup: the final destructor
rq_cleanup(s) ==
  [CleanupMsgs(CleanupConns(s)) EXCEPT !.queues = <<>>, !.cleaned = TRUE]

(***************************************************************************)
(* The message table.                                                      *)
(***************************************************************************)
\* a scan of rq_msg_new that takes the highest empty slot
HighestFree(s) ==
  LET free == {i \in 0 .. s.msg_max - 1 : s.msg_list[i] = NIL}
  IN  IF free = {} THEN -1
      ELSE CHOOSE i \in free : \A j \in free : i >= j

\* the lowest empty slot of the table, -1 when there is none (lines 1546-1552)
ScanSlot(s) ==
  LET free == {i \in 0 .. s.msg_max - 1 : s.msg_list[i] = NIL}
  IN  IF free = {} THEN -1
      ELSE CHOOSE i \in free : \A j \in free : i <= j

\* the slot rq_msg_new gives the next message (lines 1535-1562)
NewSlot(s) ==
  IF s.msg_used < s.msg_max
    THEN IF s.msg_next >= 0 THEN s.msg_next ELSE ScanSlot(s)
    ELSE s.msg_max

\* rq_msg_new that gives every message the id 0
ZeroId(c, id) ==
  [id |-> 0, src_id |-> -1, conn |-> c, queue |-> NIL, broadcast |-> 0,
   noreply |-> 0, state |-> "new", data |-> IF c # 0 THEN NIL ELSE Buf(""),
   reply_handler |-> FALSE, fail_handler |-> FALSE]

\* rq_msg_new that counts the ids from 1
OffByOneId(c, id) ==
  [id |-> id + 1, src_id |-> -1, conn |-> c, queue |-> NIL, broadcast |-> 0,
   noreply |-> 0, state |-> "new", data |-> IF c # 0 THEN NIL ELSE Buf(""),
   reply_handler |-> FALSE, fail_handler |-> FALSE]

\* the record rq_msg_new initialises (lines 1511-1529)
NewMsg(c, id) ==
  [id |-> id, src_id |-> -1, conn |-> c, queue |-> NIL, broadcast |-> 0,
   noreply |-> 0, state |-> "new", data |-> IF c # 0 THEN NIL ELSE Buf(""),
   reply_handler |-> FALSE, fail_handler |-> FALSE]

\* rq_msg_new(rq, conn); conn is 0 for NULL.  The message is at NewSlot(s).
rq_msg_new(s, c) ==
  LET id == NewSlot(s)
      a1 == Chk(s, s.msg_max > 0, "rq_msg_new:1533")
      a2 == Chk(a1, s.msg_used >= 0 /\ s.msg_used <= s.msg_max,
                "rq_msg_new:1534")
      \* used < max, the hint names the slot
      h1 == Chk(a2, s.msg_next < s.msg_max, "rq_msg_new:1538")
      h2 == Chk(h1, s.msg_list[s.msg_next] = NIL, "rq_msg_new:1539")
      h3 == [h2 EXCEPT !.msg_list[id] = NewMsg(c, id), !.msg_next = -1]
      \* used < max, no hint: scan; a scan that finds nothing leaves the
      \* message out of the table with id -1
      n3 == IF id >= 0 THEN [a2 EXCEPT !.msg_list[id] = NewMsg(c, id)]
            ELSE a2
      \* the table is full: grow it by one slot
      g3 == [a2 EXCEPT
               !.msg_list = [i \in 0 .. s.msg_max |->
                               IF i = s.msg_max THEN NewMsg(c, id)
                               ELSE s.msg_list[i]],
               !.msg_max = @ + 1]
      s3 == IF s.msg_used < s.msg_max
              THEN IF s.msg_next >= 0 THEN h3 ELSE n3
              ELSE g3
      used == s.msg_used + 1
      max == IF s.msg_used < s.msg_max THEN s.msg_max ELSE s.msg_max + 1
  IN  IF s.err # "ok" THEN s
      ELSE Chk([s3 EXCEPT !.msg_used = used], used > 0 /\ used <= max,
               "rq_msg_new:1566")

\* rq_msg_clear that always hints at slot 0
ClearHintsZero(s, i) ==
  IF s.err # "ok" THEN s
  ELSE [s EXCEPT !.msg_list[i] = NIL, !.msg_next = 0, !.msg_used = @ - 1]

\* rq_msg_clear that leaves msg_used as it is
ClearKeepsUsed(s, i) ==
  IF s.err # "ok" THEN s ELSE [s EXCEPT !.msg_list[i] = NIL, !.msg_next = i]

\* rq_msg_clear(msg), msg being the message held in slot i
rq_msg_clear(s, i) ==
  LET msg == s.msg_list[i]
      a1 == Chk(s, s.msg_used > 0, "rq_msg_clear:1584")
      a2 == Chk(a1, msg.id >= 0, "rq_msg_clear:1585")
      a3 == Chk(a2, msg.id < s.msg_max, "rq_msg_clear:1586")
      a4 == Chk(a3, msg.id = i, "rq_msg_clear:1587")
  IN  IF s.err # "ok" THEN s
      ELSE [a4 EXCEPT !.msg_list[i] = NIL,
                      !.msg_next = msg.id,
                      !.msg_used = @ - 1]

(***************************************************************************)
(* Subscriptions and the public send/reply operations.                     *)
(***************************************************************************)
\* rq_send_consume that leaves EXCLUSIVE out
NoExclusive(q) ==
  <<[cmd |-> "CLEAR"], [cmd |-> "QUEUE", str |-> q.queue],
    [cmd |-> "MAX", n |-> q.max], [cmd |-> "PRIORITY", str |-> q.priority],
    [cmd |-> "CONSUME"]>>

\* the commands rq_send_consume puts in the sendbuf (lines 727-733)
ConsumeCmds(q) ==
  <<[cmd |-> "CLEAR"]>>
  \o (IF q.exclusive # 0 THEN <<[cmd |-> "EXCLUSIVE"]>> ELSE <<>>)
  \o <<[cmd |-> "QUEUE", str |-> q.queue], [cmd |-> "MAX", n |-> q.max],
       [cmd |-> "PRIORITY", str |-> q.priority], [cmd |-> "CONSUME"]>>

\* rq_send_consume that replays the first subscription only
OnlyFirstConsume(s, c, k) ==
  IF k > 1 THEN s ELSE rq_senddata(s, c, ConsumeCmds(s.queues[k]))

\* rq_send_consume(conn, queue), queue being the k-th subscription
rq_send_consume(s, c, k) ==
  LET q == s.queues[k]
      a1 == Chk(s, q.max >= 0, "rq_send_consume:718")
      a2 == Chk(a1, q.queue # "", "rq_send_consume:719")
      a3 == Chk(a2, s.conns[c].sendbuf # NIL, "rq_send_consume:722")
  IN  IF s.err # "ok" THEN s ELSE rq_senddata(a3, c, ConsumeCmds(q))

\* the loop of rq_connect_handler over the subscriptions (lines 818-822)
RECURSIVE SendConsumes(_, _, _)
SendConsumes(s, c, k) ==
  IF s.err # "ok" \/ k > Len(s.queues) THEN s
  ELSE SendConsumes(rq_send_consume(s, c, k), c, k + 1)

\* whether rq_consume sends the CONSUME at once (line 983)
ConsumeNow(conn) == conn.active > 0 /\ conn.closing = 0

\* rq_consume(rq, queue, max, priority, exclusive, handler, accepted, ...)
rq_consume(s, a) ==
  LET a1 == Chk(s, a.max >= 0, "rq_consume:942")
      a2 == Chk(a1, a.priority \in {"NONE", "LOW", "NORMAL", "HIGH"},
                "rq_consume:943")
      a3 == Chk(a2, Len(s.connlist) > 0, "rq_consume:947")
      found == \E k \in 1 .. Len(s.queues) : s.queues[k].queue = a.queue
      q == [queue |-> a.queue, qid |-> 0, exclusive |-> a.exclusive,
            max |-> a.max, priority |-> a.priority, accepted |-> a.accepted]
      s4 == [a3 EXCEPT !.queues = Append(@, q)]
      c == Head(s.connlist)
  IN  IF a3.err # "ok" \/ found THEN a3
      ELSE IF ConsumeNow(s.conns[c])
        THEN rq_send_consume(s4, c, Len(s.queues) + 1)
        ELSE s4

\* the commands rq_reply puts in the sendbuf (lines 1749-1755)
ReplyCmds(src_id, data) ==
  <<[cmd |-> "CLEAR"], [cmd |-> "ID", n |-> ShortInt(src_id)]>>
  \o (IF data # "" THEN <<[cmd |-> "PAYLOAD", str |-> data]>> ELSE <<>>)
  \o <<[cmd |-> "REPLY"]>>

\* rq_reply, lines 1759-1767: a message that was delivered is cleared, one
\* that is still being delivered is marked replied
Replied(s, i) ==
  IF s.err # "ok" THEN s
  ELSE IF s.msg_list[i].state = "delivered" THEN rq_msg_clear(s, i)
  ELSE [s EXCEPT !.msg_list[i].state = "replied"]

\* rq_reply(msg, length, data), msg being the message held in slot i; data
\* is "" when length is 0
rq_reply(s, i, data) ==
  LET msg == s.msg_list[i]
      a1 == Chk(s, msg.conn # 0, "rq_reply:1734")
      a2 == Chk(a1, msg.id >= 0, "rq_reply:1736")
      a3 == Chk(a2, msg.src_id >= 0, "rq_reply:1737")
      a4 == Chk(a3, msg.broadcast = 0, "rq_reply:1738")
      a5 == Chk(a4, msg.noreply = 0, "rq_reply:1739")
      a6 == Chk(a5, msg.queue = NIL, "rq_reply:1740")
      a7 == Chk(a6, msg.state \in {"delivering", "delivered"}, "rq_reply:1741")
      a8 == Chk(a7, msg.data # NIL, "rq_reply:1743")
      a9 == Chk(a8, s.conns[msg.conn].sendbuf # NIL, "rq_reply:1747")
  IN  IF a9.err # "ok" THEN a9
      ELSE Replied(rq_senddata(a9, msg.conn, ReplyCmds(msg.src_id, data)), i)

\* rq_send that ends every message with REQUEST
AlwaysRequest(msg) ==
  <<[cmd |-> "CLEAR"], [cmd |-> "ID", n |-> msg.id],
    [cmd |-> "QUEUE", str |-> msg.queue.b],
    [cmd |-> "PAYLOAD", str |-> msg.data.b]>>
  \o (IF msg.noreply > 0 THEN <<[cmd |-> "NOREPLY"]>> ELSE <<>>)
  \o <<[cmd |-> "REQUEST"]>>

\* the commands rq_send puts in the sendbuf (lines 1694-1701)
SendCmds(msg) ==
  <<[cmd |-> "CLEAR"], [cmd |-> "ID", n |-> msg.id],
    [cmd |-> "QUEUE", str |-> msg.queue.b],
    [cmd |-> "PAYLOAD", str |-> msg.data.b]>>
  \o (IF msg.noreply > 0 THEN <<[cmd |-> "NOREPLY"]>> ELSE <<>>)
  \o (IF msg.broadcast > 0 THEN <<[cmd |-> "BROADCAST"]>>
      ELSE <<[cmd |-> "REQUEST"]>>)

\* rq_send(msg, reply_handler, fail_handler, arg), msg held in slot i
rq_send(s, i, reply_handler, fail_handler) ==
  LET msg == s.msg_list[i]
      a1 == Chk(s, msg.data # NIL, "rq_send:1668")
      a2 == Chk(a1, msg.data.b # "", "rq_send:1669")
      a3 == Chk(a2, msg.id >= 0, "rq_send:1671")
      a4 == Chk(a3, msg.conn = 0, "rq_send:1672")
      a5 == Chk(a4, msg.queue # NIL, "rq_send:1673")
      a6 == Chk(a5, msg.src_id = -1, "rq_send:1674")
      a7 == Chk(a6, msg.state = "new", "rq_send:1675")
      c == Head(s.connlist)
      ok == s.connlist # <<>> /\ s.conns[c].active > 0
            /\ s.conns[c].closing = 0
      a8 == Chk(a7, ok, "rq_send:1710")
      a9 == Chk(a8, s.conns[c].sendbuf # NIL, "rq_send:1690")
      s9 == [a9 EXCEPT !.msg_list[i].reply_handler = reply_handler,
                       !.msg_list[i].fail_handler = fail_handler]
  IN  IF a9.err # "ok" THEN a9 ELSE rq_senddata(s9, c, SendCmds(msg))

\* rq_msg_setqueue, rq_msg_setdata and, for m.noreply and m.broadcast,
\* rq_msg_setnoreply and rq_msg_setbroadcast on the message held in slot i
SetRequest(s, i, m) ==
  IF s.err # "ok" THEN s
  ELSE [s EXCEPT !.msg_list[i].queue = Buf(m.queue),
                 !.msg_list[i].data = Buf(m.data),
                 !.msg_list[i].noreply = m.noreply,
                 !.msg_list[i].broadcast = m.broadcast]

\* the application's rq_msg_new(rq, NULL), the setters and rq_send
NewRequest(s, m) ==
  LET i == NewSlot(s)
      s2 == Chk(rq_msg_new(s, 0), i >= 0, "rq_send:1671")
  IN  rq_send(SetRequest(s2, i, m), i, m.reply_handler, FALSE)

(***************************************************************************)
(* The RISP command handlers.  d is the connection's accumulator           *)
(* (conn->data).                                                           *)
(***************************************************************************)
\* rq_data_init
DataInit ==
  [flags |-> {}, mask |-> {}, id |-> 0, qid |-> 0, timeout |-> 0,
   priority |-> 0, payload |-> NIL, queue |-> Buf("")]

\* the accumulator's field f set to v, and the bit of the field set
SetData(s, c, f, v, bit) ==
  IF s.err # "ok" THEN s
  ELSE [s EXCEPT !.conns[c].data[f] = v, !.conns[c].data.mask = @ \cup {bit}]

cmdClear(s, c) ==
  LET a1 == Chk(s, s.conns[c].data # NIL, "cmdClear:1002")
  IN  IF a1.err # "ok" THEN a1
      ELSE [s EXCEPT !.conns[c].data =
              [@ EXCEPT !.mask = {}, !.flags = {}, !.id = 0, !.qid = 0,
                        !.timeout = 0, !.priority = 0, !.queue = Buf(""),
                        !.payload = IF @ # NIL THEN Buf("") ELSE NIL]]

cmdPing(s, c) == rq_senddata(s, c, <<[cmd |-> "PONG"]>>)

cmdPong(s, c) == Fault(s, "cmdPong:1040")

\* the first subscription named queue, 0 when there is none (lines 1066-1084)
ByName(s, queue) ==
  LET hits == {k \in 1 .. Len(s.queues) : s.queues[k].queue = queue}
  IN  IF hits = {} THEN 0 ELSE CHOOSE k \in hits : \A j \in hits : k <= j

cmdConsuming(s, c) ==
  LET d == s.conns[c].data
      a0 == Chk(s, d # NIL, "cmdConsuming:1056")
      a1 == Chk(a0, {"QUEUEID", "QUEUE"} \subseteq d.mask, "cmdConsuming:1089")
      a2 == Chk(a1, d.qid > 0, "cmdConsuming:1063")
      a3 == Chk(a2, Len(s.queues) > 0, "cmdConsuming:1064")
      k == ByName(s, d.queue.b)
      a4 == Chk(a3, s.queues[k].qid = 0, "cmdConsuming:1071")
      s4 == [a4 EXCEPT !.queues[k].qid = d.qid]
  IN  IF a3.err # "ok" \/ k = 0 THEN a3
      ELSE IF a4.err # "ok" THEN a4
      ELSE IF s.queues[k].accepted
        THEN Emit(s4, [ev |-> "accepted", queue |-> d.queue.b, qid |-> d.qid])
        ELSE s4

\* The search of cmdRequest for the subscription of a request (lines
\* 1120-1134), from the k-th subscription on: [err, q], q the subscription
\* found or 0.  qname is NIL for a request that names no queue: strcmp then
\* reads a NULL pointer, and ub is what that does ("fault": the process
\* dies, "differs": the comparison finds no match).
RECURSIVE FindQueue(_, _, _, _, _)
FindQueue(qs, qid, qname, ub, k) ==
  IF k > Len(qs) THEN [err |-> "ok", q |-> 0]
  ELSE IF ~(qs[k].qid > 0) THEN [err |-> "cmdRequest:1124", q |-> 0]
  ELSE IF qid = qs[k].qid THEN [err |-> "ok", q |-> k]
  ELSE IF qname = NIL
    THEN IF ub = "fault" THEN [err |-> "cmdRequest:1126:strcmp(NULL)", q |-> 0]
         ELSE FindQueue(qs, qid, qname, ub, k + 1)
  ELSE IF qname.b = qs[k].queue THEN [err |-> "ok", q |-> k]
  ELSE FindQueue(qs, qid, qname, ub, k + 1)

\* the commands cmdRequest answers with (lines 1140-1142, 1150-1152)
AckCmds(msgid, verb) ==
  <<[cmd |-> "CLEAR"], [cmd |-> "ID", n |-> ShortInt(msgid)], [cmd |-> verb]>>

\* cmdRequest, lines 1156-1178: the new message in slot i takes the id, the
\* NOREPLY flag and the payload buffer of the accumulator
TakeRequest(s, c, i) ==
  LET d == s.conns[c].data
      a1 == Chk(s, i >= 0, "cmdRequest:1159")
      a2 == Chk(a1, d.payload # NIL, "cmdRequest:1174")
  IN  IF a2.err # "ok" THEN a2
      ELSE [s EXCEPT
              !.msg_list[i].src_id = d.id,
              !.msg_list[i].noreply = IF "NOREPLY" \in d.flags THEN 1 ELSE 0,
              !.msg_list[i].data = d.payload,
              !.msg_list[i].state = "delivering",
              !.conns[c].data.payload = NIL]

\* The subscription's handler, called with the message in slot i.  app is
\* what the application does in it: reply at once with app.data, or keep
\* the message and reply later.  It does not reply to a NOREPLY request.
Handler(s, k, i, app) ==
  LET msg == s.msg_list[i]
      s1 == Emit(s, [ev |-> "handler", queue |-> s.queues[k].queue,
                     msg |-> i, src_id |-> msg.src_id,
                     noreply |-> msg.noreply, data |-> msg.data.b])
  IN  IF s.err # "ok" THEN s
      ELSE IF app.reply /\ msg.noreply = 0 THEN rq_reply(s1, i, app.data)
      ELSE s1

\* cmdRequest that keeps every message as delivered
AlwaysDelivered(s, i) ==
  IF s.err # "ok" THEN s ELSE [s EXCEPT !.msg_list[i].state = "delivered"]

\* what cmdRequest does with the message once the handler has returned
\* (lines 1181-1198)
AfterHandler(s, i) ==
  LET msg == s.msg_list[i]
  IN  IF s.err # "ok" THEN s
      ELSE IF msg.noreply = 1 THEN rq_msg_clear(s, i)
      ELSE IF msg.state = "replied" THEN rq_msg_clear(s, i)
      ELSE [s EXCEPT !.msg_list[i].state = "delivered"]

cmdRequest(s, c, app, ub) ==
  LET d == s.conns[c].data
      a0 == Chk(s, d # NIL, "cmdRequest:1103")
      a1 == Chk(a0, "ID" \in d.mask /\ "PAYLOAD" \in d.mask
                    /\ ("QUEUEID" \in d.mask \/ "QUEUE" \in d.mask),
                "cmdRequest:1204")
      msgid == d.id
      qid == IF "QUEUEID" \in d.mask THEN d.qid ELSE 0
      qname == IF "QUEUE" \in d.mask THEN d.queue ELSE NIL
      a2 == Chk(a1, msgid >= 0, "cmdRequest:1109")
      a3 == Chk(a2, (qname = NIL /\ qid > 0) \/ (qname # NIL /\ qid = 0),
                "cmdRequest:1116")
      f == FindQueue(s.queues, qid, qname, ub, 1)
      a4 == Chk(a3, f.err = "ok", f.err)
      a5 == Chk(a4, s.conns[c].sendbuf # NIL, "cmdRequest:1138")
      i == NewSlot(s)
  IN  IF a5.err # "ok" THEN a5
      ELSE IF f.q = 0
        \* not consuming that queue
        THEN rq_senddata(s, c, AckCmds(msgid, "UNDELIVERED"))
        \* delivered: a message for the handler
        ELSE AfterHandler(
               Handler(
                 TakeRequest(
                   rq_msg_new(rq_senddata(s, c, AckCmds(msgid, "DELIVERED")),
                              c),
                   c, i),
                 f.q, i, app),
               i)

cmdDelivered(s, c) ==
  LET d == s.conns[c].data
      id == d.id
      a0 == Chk(s, d # NIL, "cmdDelivered:1221")
      a1 == Chk(a0, "ID" \in d.mask, "cmdDelivered:1242")
      a2 == Chk(a1, id >= 0 /\ id < s.msg_max, "cmdDelivered:1231")
      a3 == Chk(a2, s.msg_list[id] # NIL, "cmdDelivered:1232")
      a4 == Chk(a3, s.msg_list[id].conn = 0, "cmdDelivered:1236")
      a5 == Chk(a4, s.msg_list[id].state = "new", "cmdDelivered:1237")
  IN  IF a5.err # "ok" THEN a5
      ELSE [s EXCEPT !.msg_list[id].state = "delivered"]

\* cmdReply, lines 1284-1293: the message in slot i takes the payload buffer
\* of the accumulator, and the reply handler, if any, is called
TakeReply(s, c, i) ==
  LET d == s.conns[c].data
      msg == s.msg_list[i]
      s1 == [s EXCEPT !.msg_list[i].data = d.payload,
                      !.conns[c].data.payload = NIL]
  IN  IF msg.reply_handler
        THEN Emit(s1, [ev |-> "reply_handler", msg |-> i,
                       data |-> d.payload.b])
        ELSE s1

cmdReply(s, c) ==
  LET d == s.conns[c].data
      msgid == d.id
      msg == s.msg_list[msgid]
      a0 == Chk(s, d # NIL, "cmdReply:1257")
      a1 == Chk(a0, "ID" \in d.mask /\ "PAYLOAD" \in d.mask, "cmdReply:1302")
      a2 == Chk(a1, msgid >= 0, "cmdReply:1263")
      a3 == Chk(a2, s.msg_used > 0, "cmdReply:1268")
      a4 == Chk(a3, msgid < s.msg_max, "cmdReply:1270")
      a5 == Chk(a4, msgid # s.msg_next, "cmdReply:1271")
      a6 == Chk(a5, s.msg_list[msgid] # NIL, "cmdReply:1272")
      a7 == Chk(a6, msg.id = msgid, "cmdReply:1275")
      a8 == Chk(a7, msg.src_id = -1, "cmdReply:1276")
      a9 == Chk(a8, msg.conn = 0, "cmdReply:1277")
      a10 == Chk(a9, msg.state = "delivered", "cmdReply:1278")
      a11 == Chk(a10, msg.data # NIL, "cmdReply:1281")
      a12 == Chk(a11, d.payload # NIL, "cmdReply:1282")
  IN  IF a12.err # "ok" THEN a12
      ELSE rq_msg_clear(TakeReply(s, c, msgid), msgid)

cmdBroadcast(s, c) == Fault(s, "cmdBroadcast:1314")

cmdNoreply(s, c) ==
  LET a0 == Chk(s, s.conns[c].data # NIL, "cmdNoreply:1323")
  IN  IF a0.err # "ok" THEN a0
      ELSE [s EXCEPT !.conns[c].data.flags = @ \cup {"NOREPLY"}]

cmdClosing(s, c) ==
  LET a0 == Chk(s, s.conns[c].data # NIL, "cmdClosing:1338")
      a1 == Chk(a0, s.conns[c].closing = 0, "cmdClosing:1341")
  IN  rq_connect(SetConn(a1, c, "closing", s.conns[c].closing + 1))

cmdServerFull(s, c) == Fault(s, "cmdServerFull:1356")

cmdID(s, c, value) ==
  LET a0 == Chk(s, value >= 0 /\ value <= 65535, "cmdID:1364")
      a1 == Chk(a0, s.conns[c].data # NIL, "cmdID:1365")
  IN  SetData(a1, c, "id", value, "ID")

cmdQueueID(s, c, value) ==
  LET a0 == Chk(s, value > 0 /\ value <= 65535, "cmdQueueID:1376")
      a1 == Chk(a0, s.conns[c].data # NIL, "cmdQueueID:1377")
  IN  SetData(a1, c, "qid", value, "QUEUEID")

cmdTimeout(s, c, value) ==
  LET a0 == Chk(s, value > 0 /\ value <= 65535, "cmdTimeout:1389")
      a1 == Chk(a0, s.conns[c].data # NIL, "cmdTimeout:1390")
  IN  SetData(a1, c, "timeout", value, "TIMEOUT")

cmdPriority(s, c, value) ==
  LET a0 == Chk(s, value > 0 /\ value <= 65535, "cmdPriority:1401")
      a1 == Chk(a0, s.conns[c].data # NIL, "cmdPriority:1402")
  IN  SetData(a1, c, "priority", value, "PRIORITY")

cmdPayload(s, c, data) ==
  LET a0 == Chk(s, data # "", "cmdPayload:1412")
      a1 == Chk(a0, s.conns[c].data # NIL, "cmdPayload:1414")
      a2 == Chk(a1, s.conns[c].data.payload = NIL, "cmdPayload:1415")
  IN  SetData(a2, c, "payload", Buf(data), "PAYLOAD")

cmdQueue(s, c, data) ==
  LET a0 == Chk(s, data # "", "cmdQueue:1431")
      a1 == Chk(a0, s.conns[c].data # NIL, "cmdQueue:1433")
  IN  SetData(a1, c, "queue", Buf(data), "QUEUE")

\* the handler rq_init registers for a command (lines 1450-1466)
Dispatch(s, c, m, app, ub) ==
  CASE m.cmd = "CLEAR" -> cmdClear(s, c)
    [] m.cmd = "PING" -> cmdPing(s, c)
    [] m.cmd = "PONG" -> cmdPong(s, c)
    [] m.cmd = "REQUEST" -> cmdRequest(s, c, app, ub)
    [] m.cmd = "REPLY" -> cmdReply(s, c)
    [] m.cmd = "DELIVERED" -> cmdDelivered(s, c)
    [] m.cmd = "BROADCAST" -> cmdBroadcast(s, c)
    [] m.cmd = "NOREPLY" -> cmdNoreply(s, c)
    [] m.cmd = "CLOSING" -> cmdClosing(s, c)
    [] m.cmd = "CONSUMING" -> cmdConsuming(s, c)
    [] m.cmd = "SERVER_FULL" -> cmdServerFull(s, c)
    [] m.cmd = "ID" -> cmdID(s, c, m.n)
    [] m.cmd = "QUEUEID" -> cmdQueueID(s, c, m.n)
    [] m.cmd = "TIMEOUT" -> cmdTimeout(s, c, m.n)
    [] m.cmd = "PRIORITY" -> cmdPriority(s, c, m.n)
    [] m.cmd = "QUEUE" -> cmdQueue(s, c, m.str)
    [] m.cmd = "PAYLOAD" -> cmdPayload(s, c, m.str)
    [] OTHER -> s

(***************************************************************************)
(* The read, write and connect callbacks.  Received bytes are a sequence   *)
(* of units: a whole command, or the first or the second half of the bytes *)
(* of a command ([half |-> 1 or 2, of |-> the command]).                   *)
(***************************************************************************)
IsWhole(u) == "cmd" \in DOMAIN u

\* the commands risp_process finds in buf and the units they take: it stops
\* at a trailing command that is not complete
RECURSIVE Decode(_)
Decode(buf) ==
  IF buf = <<>> THEN [cmds |-> <<>>, n |-> 0]
  ELSE IF IsWhole(buf[1])
    THEN LET r == Decode(Tail(buf))
         IN  [cmds |-> <<buf[1]>> \o r.cmds, n |-> r.n + 1]
  ELSE IF Len(buf) >= 2 /\ ~IsWhole(buf[2]) /\ buf[1].half = 1
          /\ buf[2].half = 2 /\ buf[2].of = buf[1].of
    THEN LET r == Decode(Tail(Tail(buf)))
         IN  [cmds |-> <<buf[1].of>> \o r.cmds, n |-> r.n + 2]
  ELSE [cmds |-> <<>>, n |-> 0]

\* the handlers of the commands cmds, called in turn
RECURSIVE DispatchAll(_, _, _, _, _)
DispatchAll(s, c, cmds, app, ub) ==
  IF s.err # "ok" \/ cmds = <<>> THEN s
  ELSE DispatchAll(Dispatch(s, c, Head(cmds), app, ub), c, Tail(cmds), app, ub)

\* risp_process(risp, conn, length, data): the state it leaves; it returns
\* Decode(buf).n
risp_process(s, c, buf, app, ub) == DispatchAll(s, c, Decode(buf).cmds, app, ub)

\* expbuf_purge that empties the buffer
PurgeAll(buf, n) == SubSeq(buf, Len(buf) + 1, Len(buf))

\* expbuf_purge(buf, n)
Purge(buf, n) == SubSeq(buf, n + 1, Len(buf))

\* rq_process_read that keeps nothing of what risp_process has left
DropRest(buf) == NIL

\* what is left of buf once risp_process has taken its commands, as the
\* in-buffer keeps it: NULL when nothing is left (lines 605-612, 628-634)
LeftOver(buf) ==
  LET rest == Purge(buf, Decode(buf).n)
  IN  IF rest = <<>> THEN NIL ELSE Buf(rest)

\* one read of rq_process_read that returned the units data (lines 583-639)
ReadData(s, c, data, app, ub) ==
  LET inbuf == s.conns[c].inbuf
      \* no carry-over: process the read buffer by itself (598-613)
      r1 == SetConn(risp_process(s, c, data, app, ub), c, "inbuf",
                    LeftOver(data))
      \* carry-over: append the read buffer to it and process that (614-635)
      all == inbuf.b \o data
      a2 == Chk(s, data # <<>> /\ inbuf.b # <<>>, "rq_process_read:618")
      r2 == SetConn(risp_process(SetConn(a2, c, "inbuf", Buf(all)), c, all,
                                 app, ub),
                    c, "inbuf", LeftOver(all))
  IN  IF s.err # "ok" THEN s
      ELSE IF inbuf = NIL THEN r1
      ELSE r2

\* assert(conn->readbuf == NULL) at the place named where
NoReadbuf(s, c, where) == Chk(s, s.conns[c].readbuf = NIL, where)

\* the loop of rq_process_read (lines 577-659); reads are the results of the
\* read() calls it makes, in order: data (full: the read filled the buffer,
\* and the loop reads again), "eof", "error" or "eagain"
RECURSIVE ReadLoop(_, _, _, _, _)
ReadLoop(s, c, reads, app, ub) ==
  IF s.err # "ok" \/ reads = <<>> THEN s
  ELSE
    LET r == Head(reads)
        a1 == Chk(s, s.conns[c].handle # INVALID_HANDLE, "rq_process_read:579")
    IN  CASE r.res = "data" ->
               IF r.full
                 THEN ReadLoop(ReadData(a1, c, r.data, app, ub), c,
                               Tail(reads), app, ub)
                 ELSE ReadData(a1, c, r.data, app, ub)
          [] r.res = "eof" ->
               NoReadbuf(rq_conn_closed(a1, c), c, "rq_process_read:646")
          [] r.res = "error" ->
               NoReadbuf(rq_conn_closed(a1, c), c, "rq_process_read:652")
          [] OTHER -> a1

rq_process_read(s, c, reads, app, ub) ==
  ReadLoop(Chk(s, s.conns[c].readbuf # NIL, "rq_process_read:571"), c, reads,
           app, ub)

rq_read_handler(s, c, reads, app, ub) ==
  rq_process_read(Chk(s, s.conns[c].active > 0, "rq_read_handler:839"), c,
                  reads, app, ub)

\* rq_write_handler that leaves the write event registered
WriteKeepsEvent(s, c) == Chk(s, s.conns[c].outbuf # NIL, "rq_write_handler:700")

\* rq_write_handler, lines 699-705: with nothing more to send, the write
\* event is removed.  event_free(NULL) is a read through a NULL pointer (a
\* failed assert with LIBEVENT_OLD_VER): a fault.
WriteDone(s, c) ==
  LET conn == s.conns[c]
      a1 == Chk(s, conn.outbuf # NIL, "rq_write_handler:700")
  IN  IF a1.err # "ok" \/ conn.outbuf.b # <<>> THEN a1
      ELSE IF ~conn.write_event
        THEN Fault(s, "rq_write_handler:703:event_free(NULL)")
        ELSE SetConn(s, c, "write_event", FALSE)

\* rq_write_handler; res is what send() returned: [res |-> "sent", n |-> the
\* blocks written], "zero", "error" or "eagain"
rq_write_handler(s, c, res) ==
  LET conn == s.conns[c]
      a1 == Chk(s, conn.active > 0, "rq_write_handler:676")
      a2 == Chk(a1, conn.write_event, "rq_write_handler:678")
      a3 == Chk(a2, conn.outbuf # NIL, "rq_write_handler:680")
      a4 == Chk(a3, conn.outbuf.b # <<>>, "rq_write_handler:681")
  IN  IF a4.err # "ok" THEN a4
      ELSE CASE res.res = "sent" ->
                  WriteDone(SetConn(s, c, "outbuf",
                                    Buf(Purge(conn.outbuf.b, res.n))), c)
             [] res.res \in {"zero", "error"} ->
                  WriteDone(rq_conn_closed(s, c), c)
             [] OTHER -> WriteDone(s, c)

\* whether rq_connect_handler treats the connect as failed (line 762)
ConnectFailed(error) == error = ECONNREFUSED

\* rq_connect_handler that leaves the connect event registered
ActivateKeepsConnect(s, c) ==
  IF s.err # "ok" THEN s
  ELSE [s EXCEPT !.conns[c] =
          [@ EXCEPT !.active = @ + 1, !.readbuf = Buf(<<>>),
                    !.sendbuf = Buf(<<>>), !.data = DataInit,
                    !.read_event = TRUE, !.connect_event = TRUE]]

\* rq_connect_handler, lines 774-811: the connection becomes active and gets
\* its buffers, its accumulator and its read event
Activate(s, c) ==
  LET conn == s.conns[c]
      b1 == Chk(s, conn.active = 0, "rq_connect_handler:774")
      b2 == Chk(b1, conn.readbuf = NIL, "rq_connect_handler:778")
      b3 == Chk(b2, conn.sendbuf = NIL, "rq_connect_handler:784")
      b4 == Chk(b3, conn.inbuf = NIL, "rq_connect_handler:790")
      b5 == Chk(b4, conn.data = NIL, "rq_connect_handler:794")
      b6 == Chk(b5, ~conn.read_event, "rq_connect_handler:800")
      b7 == Chk(b6, conn.outbuf # NIL, "rq_connect_handler:806")
      b8 == Chk(b7, conn.outbuf.b = <<>> \/ ~conn.write_event,
                "rq_connect_handler:809")
  IN  IF b8.err # "ok" THEN b8
      ELSE [s EXCEPT !.conns[c] =
              [@ EXCEPT !.active = @ + 1, !.readbuf = Buf(<<>>),
                        !.sendbuf = Buf(<<>>), !.data = DataInit,
                        !.read_event = TRUE,
                        !.write_event = IF conn.outbuf.b # <<>> THEN TRUE
                                        ELSE @]]

\* rq_connect_handler, lines 762-771: the connect failed
Refused(s, c) ==
  LET conn == s.conns[c]
      f1 == Chk(s, conn.active = 0, "rq_connect_handler:765")
      f2 == Chk(f1, conn.closing = 0, "rq_connect_handler:766")
      f3 == Chk(f2, conn.data = NIL, "rq_connect_handler:768")
  IN  rq_conn_closed(f3, c)

\* rq_connect_handler; error is SO_ERROR, reads what the read() calls of the
\* closing rq_process_read return
rq_connect_handler(s, c, error, reads, app, ub) ==
  LET conn == s.conns[c]
      a1 == Chk(s, conn.handle # INVALID_HANDLE, "rq_connect_handler:751")
      a2 == Chk(a1, conn.connect_event, "rq_connect_handler:756")
      s2 == SetConn(a2, c, "connect_event", FALSE)
  IN  IF ConnectFailed(error) THEN Refused(s2, c)
      ELSE rq_process_read(SendConsumes(Activate(s2, c), c, 1), c, reads,
                           app, ub)

\* the record rq_addcontroller initialises (lines 876-898)
NewConn ==
  [handle |-> INVALID_HANDLE, read_event |-> FALSE, write_event |-> FALSE,
   connect_event |-> FALSE, readbuf |-> NIL, sendbuf |-> NIL, inbuf |-> NIL,
   outbuf |-> Buf(<<>>), data |-> NIL, active |-> 0, shutdown |-> 0,
   closing |-> 0]

\* rq_addcontroller(rq, host, NULL, NULL, NULL), host being the next
\* controller: it is put at the tail, and connected to if it is the only one
rq_addcontroller(s) ==
  LET c == Len(s.conns) + 1
      s1 == [s EXCEPT !.conns = Append(@, NewConn),
                      !.connlist = Append(@, c)]
  IN  IF Len(s.connlist) = 0 THEN rq_connect(s1) ELSE s1

(***************************************************************************)
(* What the application and the controllers do.                            *)
(***************************************************************************)
\* the subscriptions the application asks for
ConsumeArgs ==
  {[queue |-> "q1", max |-> 10, priority |-> "NORMAL", exclusive |-> 0,
    accepted |-> TRUE],
   [queue |-> "q2", max |-> 0, priority |-> "HIGH", exclusive |-> 1,
    accepted |-> FALSE]}

\* the requests the application sends
Requests ==
  {[queue |-> "w", data |-> "x", noreply |-> 0, broadcast |-> 0,
    reply_handler |-> TRUE],
   [queue |-> "w", data |-> "x", noreply |-> 1, broadcast |-> 0,
    reply_handler |-> FALSE],
   [queue |-> "w", data |-> "x", noreply |-> 0, broadcast |-> 1,
    reply_handler |-> FALSE]}

\* what a subscription's handler does with a request
Silent == [reply |-> FALSE, data |-> ""]
Apps == {Silent, [reply |-> TRUE, data |-> "ok"]}

\* the payloads of a later rq_reply
ReplyData == {"ok", ""}

\* SO_ERROR of a finished connect
SoErrors == {0, ECONNREFUSED, ETIMEDOUT}

Cmd(name) == [cmd |-> name]
CmdInt(name, n) == [cmd |-> name, n |-> n]
CmdStr(name, str) == [cmd |-> name, str |-> str]

\* a REQUEST as a controller sends it
Request(id, target, flags) ==
  <<Cmd("CLEAR"), CmdInt("ID", id), target, CmdStr("PAYLOAD", "hi")>>
  \o flags \o <<Cmd("REQUEST")>>

RequestFrames ==
  {Request(7, CmdStr("QUEUE", "q1"), <<>>),
   Request(40000, CmdStr("QUEUE", "q1"), <<>>),
   Request(7, CmdStr("QUEUE", "q1"), <<Cmd("NOREPLY")>>),
   Request(7, CmdStr("QUEUE", "nope"), <<>>),
   Request(7, CmdInt("QUEUEID", 1), <<>>)}

\* the acknowledgement of a CONSUME
Consuming(queue, qid) ==
  <<Cmd("CLEAR"), CmdInt("QUEUEID", qid), CmdStr("QUEUE", queue),
    Cmd("CONSUMING")>>

\* the answers to the request the application sent as message id
Delivered(id) == <<Cmd("CLEAR"), CmdInt("ID", id), Cmd("DELIVERED")>>
Reply(id) ==
  <<Cmd("CLEAR"), CmdInt("ID", id), CmdStr("PAYLOAD", "re"), Cmd("REPLY")>>

\* the outbound messages of the table
Outbound(list, max) == {i \in 0 .. max - 1 : list[i] # NIL /\ list[i].conn = 0}

\* the frames a controller may send in the current state
Frames ==
  RequestFrames
  \cup {Consuming("q1", 1), Consuming("q2", 2)}
  \cup {<<Cmd("CLOSING")>>, <<Cmd("PING")>>, <<Cmd("PONG")>>}
  \cup {Delivered(i) : i \in Outbound(msg_list, msg_max)}
  \cup {Reply(i) : i \in Outbound(msg_list, msg_max)}

Data(units, full) == [res |-> "data", data |-> units, full |-> full]
Eof == [res |-> "eof"]
Error == [res |-> "error"]
Eagain == [res |-> "eagain"]

\* a frame whose PAYLOAD command is cut in two by a read that fills the buffer
SplitFrame ==
  <<Data(<<Cmd("CLEAR"), CmdInt("ID", 7), CmdStr("QUEUE", "q1"),
           [half |-> 1, of |-> CmdStr("PAYLOAD", "hi")]>>, TRUE),
    Data(<<[half |-> 2, of |-> CmdStr("PAYLOAD", "hi")], Cmd("REQUEST")>>,
         FALSE)>>

\* what the read() calls of one read callback return
Reads ==
  {<<Data(f, FALSE)>> : f \in Frames}
  \cup {SplitFrame, <<Eof>>, <<Error>>, <<Eagain>>}

\* what the read() calls at the end of the connect callback return: on a
\* socket whose connect failed, an error
ConnectReads(error) ==
  IF error = 0 THEN {<<Eagain>>, <<Eof>>, <<Data(<<Cmd("PING")>>, FALSE)>>}
  ELSE {<<Error>>}

HasCmd(reads, name) ==
  \E k \in 1 .. Len(reads) :
    reads[k].res = "data"
    /\ \E j \in 1 .. Len(reads[k].data) :
         LET u == reads[k].data[j]
         IN  IF IsWhole(u) THEN u.cmd = name ELSE u.of.cmd = name

\* the handler's choices matter to a REQUEST only
AppsOf(reads) == IF HasCmd(reads, "REQUEST") THEN Apps ELSE {Silent}

\* the outcomes of strcmp(NULL, ...) matter to a request by queue-id only
UbOf(reads) ==
  IF HasCmd(reads, "REQUEST") /\ HasCmd(reads, "QUEUEID")
    THEN {"fault", "differs"}
    ELSE {"fault"}

\* what send() returns for an outbuf of len units
WriteResults(len) ==
  {[res |-> "sent", n |-> n] : n \in 1 .. len}
  \cup {[res |-> "zero"], [res |-> "error"], [res |-> "eagain"]}

(***************************************************************************)
(* The specification.                                                      *)
(***************************************************************************)
\* rq_init (lines 1468-1483), with an event base set
Fresh ==
  [connlist |-> <<>>, conns |-> <<>>, queues |-> <<>>,
   msg_list |-> [i \in 0 .. DEFAULT_MSG_ARRAY - 1 |-> NIL],
   msg_max |-> DEFAULT_MSG_ARRAY, msg_used |-> 0, msg_next |-> 0,
   err |-> "ok", cleaned |-> FALSE, events |-> <<>>]

Init ==
  /\ connlist = Fresh.connlist
  /\ conns = Fresh.conns
  /\ queues = Fresh.queues
  /\ msg_list = Fresh.msg_list
  /\ msg_max = Fresh.msg_max
  /\ msg_used = Fresh.msg_used
  /\ msg_next = Fresh.msg_next
  /\ err = "ok"
  /\ cleaned = FALSE
  /\ last = [op |-> "rq_init"]
  /\ events = <<>>

\* The operation op leaves the state s.  An aborted process has no state
\* left: what remains is the assertion that ended it.
Commit(s, op) ==
  LET f == IF s.err = "ok" THEN s ELSE Fresh
  IN  /\ connlist' = f.connlist
      /\ conns' = f.conns
      /\ queues' = f.queues
      /\ msg_list' = f.msg_list
      /\ msg_max' = f.msg_max
      /\ msg_used' = f.msg_used
      /\ msg_next' = f.msg_next
      /\ cleaned' = f.cleaned
      /\ events' = f.events
      /\ err' = s.err
      /\ last' = op

Running == err = "ok" /\ ~cleaned

ShutdownCalled == \E c \in 1 .. Len(conns) : conns[c].shutdown > 0

\* no outbuf holds more than MaxPending units
Drained == \A c \in 1 .. Len(conns) : Len(conns[c].outbuf.b) <= MaxPending

AddController ==
  /\ Running /\ ~ShutdownCalled
  /\ Len(conns) < MaxConns
  /\ Commit(rq_addcontroller(St), [op |-> "rq_addcontroller"])

ConnectEvent ==
  /\ Running
  /\ \E c \in 1 .. Len(conns) :
       /\ conns[c].connect_event
       /\ \E error \in SoErrors : \E reads \in ConnectReads(error) :
            Commit(rq_connect_handler(St, c, error, reads, Silent, "fault"),
                   [op |-> "rq_connect_handler", c |-> c, error |-> error,
                    reads |-> reads])

ReadEvent ==
  /\ Running
  /\ \E c \in 1 .. Len(conns) :
       /\ conns[c].read_event
       /\ \E reads \in Reads :
            /\ reads[1].res = "data" => Drained
            /\ HasCmd(reads, "REQUEST") => msg_used < MaxMsgs
            /\ \E app \in AppsOf(reads) : \E ub \in UbOf(reads) :
                 Commit(rq_read_handler(St, c, reads, app, ub),
                        [op |-> "rq_read_handler", c |-> c, reads |-> reads,
                         app |-> app, ub |-> ub])

WriteEvent ==
  /\ Running
  /\ \E c \in 1 .. Len(conns) :
       /\ conns[c].write_event
       /\ \E res \in WriteResults(Len(conns[c].outbuf.b)) :
            Commit(rq_write_handler(St, c, res),
                   [op |-> "rq_write_handler", c |-> c, res |-> res])

Consume ==
  /\ Running /\ Drained
  /\ connlist # <<>>
  /\ \E a \in ConsumeArgs :
       Commit(rq_consume(St, a), [op |-> "rq_consume", a |-> a])

Send ==
  /\ Running /\ Drained
  /\ msg_used < MaxMsgs
  /\ \E m \in Requests :
       Commit(NewRequest(St, m), [op |-> "rq_send", m |-> m])

\* a later rq_reply, to a request a handler kept
LaterReply ==
  /\ Running /\ Drained
  /\ \E i \in 0 .. msg_max - 1 :
       /\ msg_list[i] # NIL
       /\ msg_list[i].conn # 0
       /\ msg_list[i].state = "delivered"
       /\ \E data \in ReplyData :
            Commit(rq_reply(St, i, data),
                   [op |-> "rq_reply", msg |-> i, data |-> data])

Shutdown ==
  /\ Running
  /\ \E c \in 1 .. Len(conns) : conns[c].shutdown = 0
  /\ Commit(rq_shutdown(St), [op |-> "rq_shutdown"])

\* rq_cleanup, once rq_shutdown was called and the event loop has no event
\* left
Cleanup ==
  /\ Running /\ ShutdownCalled
  /\ \A c \in 1 .. Len(conns) :
       ~conns[c].read_event /\ ~conns[c].write_event /\ ~conns[c].connect_event
  /\ Commit(rq_cleanup(St), [op |-> "rq_cleanup"])

Next ==
  \/ AddController
  \/ ConnectEvent
  \/ ReadEvent
  \/ WriteEvent
  \/ Consume
  \/ Send
  \/ LaterReply
  \/ Shutdown
  \/ Cleanup

Spec == Init /\ [][Next]_vars

(***************************************************************************)
(* The message table under load.  The client is connected to one           *)
(* controller and consumes q1; the application sends requests, the         *)
(* controller sends requests for q1 and answers those of the application,  *)
(* and up to MaxTable messages are in the table at a time.  The payload of *)
(* a request the application sends, and the ID of a request the controller *)
(* sends, are chosen different from those of the other messages in the     *)
(* table, so that they tell the messages apart.                            *)
(***************************************************************************)
\* rq_consume(rq, "q1", ...)
ConsumeQ1 == CHOOSE a \in ConsumeArgs : a.queue = "q1"

\* the read that brings the CONSUMING of q1
AckQ1 == <<Data(Consuming("q1", 1), FALSE)>>

\* rq_init, rq_addcontroller, the connect callback, rq_consume of q1 and the
\* write callback
TblConsumed ==
  [rq_write_handler(
     rq_consume(
       rq_connect_handler(rq_addcontroller(Fresh), 1, 0, <<Eagain>>, Silent,
                          "fault"),
       ConsumeQ1),
     1, [res |-> "sent", n |-> 1])
   EXCEPT !.events = <<>>]

\* then the read callback of the CONSUMING of q1
TblStart == rq_read_handler(TblConsumed, 1, AckQ1, Silent, "fault")

TblInit ==
  /\ connlist = TblStart.connlist
  /\ conns = TblStart.conns
  /\ queues = TblStart.queues
  /\ msg_list = TblStart.msg_list
  /\ msg_max = TblStart.msg_max
  /\ msg_used = TblStart.msg_used
  /\ msg_next = TblStart.msg_next
  /\ err = TblStart.err
  /\ cleaned = TblStart.cleaned
  /\ last = [op |-> "rq_read_handler", c |-> 1, reads |-> AckQ1,
             app |-> Silent, ub |-> "fault"]
  /\ events = TblStart.events

\* the slots of the table list, of max slots, that hold a message
Live(list, max) == {i \in 0 .. max - 1 : list[i] # NIL}

\* the payloads the application gives its requests
TagNames == <<"a", "b", "c", "d", "e", "f">>
TblTags == {TagNames[k] : k \in 1 .. MaxTable}

\* the IDs the controller gives its requests
TblIds == 1 .. MaxTable

\* the application sends a request (rq_msg_new, the setters, rq_send)
TblSend ==
  /\ Running /\ Drained
  /\ msg_used < MaxTable
  /\ \E tag \in TblTags : \E r \in {TRUE, FALSE} :
       /\ \A i \in Outbound(msg_list, msg_max) : msg_list[i].data.b # tag
       /\ LET m == [queue |-> "w", data |-> tag, noreply |-> 0,
                    broadcast |-> 0, reply_handler |-> r]
          IN  Commit(NewRequest(St, m), [op |-> "rq_send", m |-> m])

\* the controller sends a request for q1
TblRequest ==
  /\ Running /\ Drained
  /\ msg_used < MaxTable
  /\ \E id \in TblIds : \E app \in Apps :
       /\ \A i \in Live(msg_list, msg_max) : msg_list[i].src_id # id
       /\ LET reads == <<Data(Request(id, CmdStr("QUEUE", "q1"), <<>>), FALSE)>>
          IN  Commit(rq_read_handler(St, 1, reads, app, "fault"),
                     [op |-> "rq_read_handler", c |-> 1, reads |-> reads,
                      app |-> app, ub |-> "fault"])

\* the controller answers a request of the application: DELIVERED, then REPLY
TblAnswer ==
  /\ Running
  /\ \E i \in Outbound(msg_list, msg_max) :
       LET reads == IF msg_list[i].state = "new" THEN <<Data(Delivered(i), FALSE)>>
                    ELSE <<Data(Reply(i), FALSE)>>
       IN  Commit(rq_read_handler(St, 1, reads, Silent, "fault"),
                  [op |-> "rq_read_handler", c |-> 1, reads |-> reads,
                   app |-> Silent, ub |-> "fault"])

\* the write callback, send() taking the whole outbuf
TblWrite ==
  /\ Running
  /\ conns[1].write_event
  /\ LET res == [res |-> "sent", n |-> Len(conns[1].outbuf.b)]
     IN  Commit(rq_write_handler(St, 1, res),
                [op |-> "rq_write_handler", c |-> 1, res |-> res])

TblNext ==
  \/ TblSend
  \/ TblRequest
  \/ TblAnswer
  \/ LaterReply
  \/ TblWrite

TableSpec == TblInit /\ [][TblNext]_vars

(***************************************************************************)
(* The inbound stream.  The client is connected to one controller, which   *)
(* sends a stream of commands that change the accumulator only, and PINGs. *)
(* A command with a parameter may arrive cut in two; the stream is cut     *)
(* into the reads of the read callbacks at any unit.                       *)
(***************************************************************************)
\* the commands of the stream, and those that can be cut in two
StrWhole ==
  {Cmd("PING"), Cmd("CLEAR"), Cmd("NOREPLY"), CmdInt("ID", 1),
   CmdInt("ID", 2), CmdStr("QUEUE", "q1")}
StrSplit == {CmdInt("ID", 1), CmdInt("ID", 2), CmdStr("QUEUE", "q1")}

\* the command the unit u leaves unfinished, NIL if none
After(u) == IF ~IsWhole(u) /\ u.half = 1 THEN u.of ELSE NIL

\* the units that may follow in the stream while command p is unfinished
Follows(p) ==
  IF p = NIL THEN StrWhole \cup {[half |-> 1, of |-> x] : x \in StrSplit}
  ELSE {[half |-> 2, of |-> p]}

\* the pieces of at most n units of a stream in which p is unfinished
RECURSIVE StrSeqs(_, _)
StrSeqs(p, n) ==
  IF n = 0 THEN {<<>>}
  ELSE {<<>>}
       \cup UNION {{<<u>> \o r : r \in StrSeqs(After(u), n - 1)} :
                   u \in Follows(p)}

\* the command the carry-over in inbuf leaves unfinished
Cut(inbuf) == IF inbuf = NIL THEN NIL ELSE After(inbuf.b[Len(inbuf.b)])

\* what the read() calls of one read callback return for the piece seq: all
\* of it at once, or in two reads of which the first fills the buffer
ReadsOf(seq) ==
  {<<Data(seq, FALSE)>>, <<Data(seq, TRUE), Eagain>>}
  \cup {<<Data(SubSeq(seq, 1, k), TRUE),
          Data(SubSeq(seq, k + 1, Len(seq)), FALSE)>> : k \in 1 .. Len(seq) - 1}

\* rq_init, rq_addcontroller and the connect callback
StrStart ==
  rq_connect_handler(rq_addcontroller(Fresh), 1, 0, <<Eagain>>, Silent,
                     "fault")

StrInit ==
  /\ connlist = StrStart.connlist
  /\ conns = StrStart.conns
  /\ queues = StrStart.queues
  /\ msg_list = StrStart.msg_list
  /\ msg_max = StrStart.msg_max
  /\ msg_used = StrStart.msg_used
  /\ msg_next = StrStart.msg_next
  /\ err = StrStart.err
  /\ cleaned = StrStart.cleaned
  /\ last = [op |-> "rq_connect_handler", c |-> 1, error |-> 0,
             reads |-> <<Eagain>>]
  /\ events = StrStart.events

\* the read callback receives the next piece of the stream
StrRead ==
  /\ Running /\ Drained
  /\ \E seq \in StrSeqs(Cut(conns[1].inbuf), MaxRead) \ {<<>>} :
       \E reads \in ReadsOf(seq) :
         Commit(rq_read_handler(St, 1, reads, Silent, "fault"),
                [op |-> "rq_read_handler", c |-> 1, reads |-> reads,
                 app |-> Silent, ub |-> "fault"])

StreamNext ==
  \/ StrRead
  \/ TblWrite

StreamSpec == StrInit /\ [][StreamNext]_vars

(***************************************************************************)
(* The properties.  They read the record of the operation that led to a    *)
(* state (last) and what that operation did (events).                      *)
(***************************************************************************)
\* the record of rq_senddata(c, data)
Sent(c, data) == [ev |-> "send", conn |-> c, data |-> data]

\* the rq_senddata calls among the events evs
SendsOf(evs) == SelectSeq(evs, LAMBDA e : e.ev = "send")

\* the user callbacks among the events evs
CallbacksOf(evs) == SelectSeq(evs, LAMBDA e : e.ev # "send")

\* the calls of subscription handlers among the events evs
HandlerCalls(evs) == SelectSeq(evs, LAMBDA e : e.ev = "handler")

\* the verb that ends the commands of a rq_senddata call
Verb(e) == e.data[Len(e.data)].cmd

\* the rq_senddata calls among the events evs that end with the verb v
SendsWith(evs, v) == SelectSeq(evs, LAMBDA e : e.ev = "send" /\ Verb(e) = v)

InSeq(x, seq) == \E k \in 1 .. Len(seq) : seq[k] = x

\* the operation op is a callback that meets a transport failure: a read
\* returning 0 or a hard error, a write returning 0 or a hard error
TransportFailure(op) ==
  \/ op.op = "rq_read_handler" /\ op.reads[Len(op.reads)].res \in {"eof", "error"}
  \/ op.op = "rq_write_handler" /\ op.res.res \in {"zero", "error"}

\* C1: a transport failure on an active connection never ends the client in
\* an abort: the connection is closed and at the tail of the list, and the
\* head of the list, unless shut down, is connecting.
C1_FailureAbsorbed ==
  [][\A c \in 1 .. Len(conns) :
       (conns[c].active > 0 /\ TransportFailure(last') /\ last'.c = c)
         => /\ err' = "ok"
            /\ conns'[c].active = 0
            /\ ~conns'[c].read_event
            /\ connlist'[Len(connlist')] = c
            /\ conns'[Head(connlist')].shutdown = 0
                 => conns'[Head(connlist')].connect_event]_vars

\* C2: with controllers 1 then 2 in the list and 1 connecting, a connect
\* event of 1 with ECONNREFUSED releases its socket, moves it to the tail
\* and starts the connect to 2, with no abort and no user callback.
C2_RefusedFailsOver ==
  [][(/\ connlist = <<1, 2>>
      /\ conns[1].connect_event
      /\ last'.op = "rq_connect_handler"
      /\ last'.c = 1
      /\ last'.error = ECONNREFUSED)
       => /\ err' = "ok"
          /\ conns'[1].handle = INVALID_HANDLE
          /\ connlist' = <<2, 1>>
          /\ conns'[2].handle # INVALID_HANDLE
          /\ conns'[2].connect_event
          /\ CallbacksOf(events') = <<>>]_vars

\* C3: a connect event that activates a connection sends that connection
\* exactly one CONSUME for each registered subscription, in list order, and
\* these are the first blocks of its outbuf.
C3_Replay ==
  (last.op = "rq_connect_handler" /\ ~ConnectFailed(last.error))
    => LET c == last.c
           consumes == [k \in 1 .. Len(queues) |-> ConsumeCmds(queues[k])]
       IN  /\ err = "ok"
           /\ SendsWith(events, "CONSUME")
                = [k \in 1 .. Len(queues) |-> Sent(c, consumes[k])]
           /\ conns[c].active > 0
                => SubSeq(conns[c].outbuf.b, 1, Len(queues)) = consumes

\* a replacement (controller 2) has activated and was sent the CONSUME of
\* two subscriptions that controller 1 had acknowledged before it was closed
C3_Witness ==
  /\ last.op = "rq_connect_handler"
  /\ last.c = 2
  /\ ~ConnectFailed(last.error)
  /\ err = "ok"
  /\ Len(queues) = 2
  /\ queues[1].qid > 0
  /\ queues[2].qid > 0
  /\ conns[2].active > 0
  /\ conns[1].active = 0
  /\ Len(SendsWith(events, "CONSUME")) = 2

\* the REPLY commands for a request received with the id id, answered with
\* data
ReplyOf(id, data) ==
  <<Cmd("CLEAR"), CmdInt("ID", id)>>
  \o (IF data # "" THEN <<CmdStr("PAYLOAD", data)>> ELSE <<>>)
  \o <<Cmd("REPLY")>>

\* C4: an rq_reply to a delivered request, in its handler or later, sends
\* exactly one REPLY, on the connection of the request, with the id received
\* in the request and the data given; nothing else sends a REPLY.
C4_RoundTrip ==
  [][IF last'.op = "rq_reply"
       THEN LET msg == msg_list[last'.msg]
            IN  SendsWith(events', "REPLY")
                  = <<Sent(msg.conn, ReplyOf(msg.src_id, last'.data))>>
       ELSE IF /\ last'.op = "rq_read_handler"
               /\ last'.app.reply
               /\ HandlerCalls(events') # <<>>
               /\ HandlerCalls(events')[1].noreply = 0
         THEN SendsWith(events', "REPLY")
                = <<Sent(last'.c, ReplyOf(HandlerCalls(events')[1].src_id,
                                          last'.app.data))>>
         ELSE SendsWith(events', "REPLY") = <<>>]_vars

\* C5: with a subscription to q1 registered, the commands CLEAR, ID n,
\* QUEUE q1, PAYLOAD hi, REQUEST on the active connection send DELIVERED
\* with ID n on it and call the handler once, with the data hi, whatever the
\* queue-ids of the subscriptions.
C5_Dispatch ==
  [][\A n \in {7, 40000} :
       (/\ last'.op = "rq_read_handler"
        /\ last'.reads = <<Data(Request(n, CmdStr("QUEUE", "q1"), <<>>), FALSE)>>
        /\ \E k \in 1 .. Len(queues) : queues[k].queue = "q1")
         => /\ err' = "ok"
            /\ InSeq(Sent(last'.c, <<Cmd("CLEAR"), CmdInt("ID", n),
                                    Cmd("DELIVERED")>>), events')
            /\ Len(HandlerCalls(events')) = 1
            /\ HandlerCalls(events')[1].queue = "q1"
            /\ HandlerCalls(events')[1].data = "hi"]_vars

\* C6: a REQUEST whose queue name or queue-id matches no subscription sends
\* exactly CLEAR, ID, UNDELIVERED on its connection, calls no handler, leaves
\* the message table as it was and the connection active.
C6_UnknownQueue ==
  [][(/\ last'.op = "rq_read_handler"
      /\ \/ /\ last'.reads
                = <<Data(Request(7, CmdStr("QUEUE", "nope"), <<>>), FALSE)>>
            /\ \A k \in 1 .. Len(queues) : queues[k].queue # "nope"
         \/ /\ last'.reads
                = <<Data(Request(7, CmdInt("QUEUEID", 1), <<>>), FALSE)>>
            /\ \A k \in 1 .. Len(queues) : queues[k].qid # 1)
       => /\ err' = "ok"
          /\ events' = <<Sent(last'.c, <<Cmd("CLEAR"), CmdInt("ID", 7),
                                        Cmd("UNDELIVERED")>>)>>
          /\ msg_list' = msg_list
          /\ msg_used' = msg_used
          /\ conns'[last'.c].active > 0]_vars

C8_DrainCloses ==
  [][\A c \in 1 .. Len(conns) :
       (/\ last.op = "rq_reply"
        /\ msg_used = 0
        /\ conns[c].shutdown > 0
        /\ conns[c].active > 0
        /\ last'.op = "rq_write_handler"
        /\ last'.c = c
        /\ last'.res.res = "sent"
        /\ err' = "ok"
        /\ conns'[c].outbuf.b = <<>>)
         => /\ conns'[c].handle = INVALID_HANDLE
            /\ ~conns'[c].read_event
            /\ ~conns'[c].write_event
            /\ ~conns'[c].connect_event]_vars

\* C9: rq_shutdown with an empty table leaves every connection as rq_cleanup
\* asserts it: shut down, without socket, neither active nor closing,
\* without events, read buffer, in-buffer or accumulator.
C9_ShutdownCloses ==
  [][(last'.op = "rq_shutdown" /\ msg_used = 0)
       => /\ err' = "ok"
          /\ Len(conns') = Len(conns)
          /\ \A c \in 1 .. Len(conns') :
               /\ conns'[c].shutdown > 0
               /\ conns'[c].handle = INVALID_HANDLE
               /\ conns'[c].active = 0
               /\ conns'[c].closing = 0
               /\ ~conns'[c].read_event
               /\ ~conns'[c].write_event
               /\ ~conns'[c].connect_event
               /\ conns'[c].readbuf = NIL
               /\ conns'[c].inbuf = NIL
               /\ conns'[c].data = NIL]_vars

\* C10: CLOSING received on the active head of a list of two controllers or
\* more marks it closing, keeps its socket and starts the connect to another
\* controller.
C10_ClosingConnectsNext ==
  [][\A c \in 1 .. Len(conns) :
       (/\ Len(connlist) >= 2
        /\ Head(connlist) = c
        /\ conns[c].active > 0
        /\ conns[c].closing = 0
        /\ last'.op = "rq_read_handler"
        /\ last'.c = c
        /\ last'.reads = <<Data(<<Cmd("CLOSING")>>, FALSE)>>)
         => /\ err' = "ok"
            /\ conns'[c].closing > 0
            /\ conns'[c].handle = conns[c].handle
            /\ \E d \in 1 .. Len(conns') :
                 /\ d # c
                 /\ conns'[d].handle # INVALID_HANDLE
                 /\ conns'[d].connect_event]_vars

\* the records m and n are of the same message: the same request of the
\* application, or the same request of the controller
SameMsg(m, n) ==
  /\ m.conn = n.conn
  /\ IF m.conn = 0 THEN m.data = n.data ELSE m.src_id = n.src_id

\* the ids of the messages in the table are pairwise distinct
UniqueIds ==
  \A i, j \in Live(msg_list, msg_max) :
    i # j => msg_list[i].id # msg_list[j].id

\* a message that stays in the table keeps its id, and a message that is new
\* in the table has an id that no message of the table had
StableIds ==
  \A j \in Live(msg_list', msg_max') : \A i \in Live(msg_list, msg_max) :
    IF SameMsg(msg_list[i], msg_list'[j])
      THEN msg_list'[j].id = msg_list[i].id
      ELSE msg_list'[j].id # msg_list[i].id

\* C11: the ids of the live messages are pairwise distinct, a live message
\* keeps its id from rq_msg_new to rq_msg_clear, and a new message gets an
\* id that no live message holds.
C11_IdsUniqueStable == []UniqueIds /\ [][StableIds]_vars

\* the table has grown to MaxTable slots and is full, with requests of both
\* directions, and the request just sent sits in slot 1, which an earlier
\* message had held and left
C11_Witness ==
  /\ err = "ok"
  /\ last.op = "rq_send"
  /\ msg_max = MaxTable
  /\ msg_used = MaxTable
  /\ msg_list[1].conn = 0
  /\ msg_list[1].data.b = last.m.data
  /\ msg_list[1].state = "new"
  /\ \E i \in Live(msg_list, msg_max) : msg_list[i].conn # 0

\* C12: every slot of the table is nil or holds the message whose id is the
\* slot's index.
C12_IdIsIndex ==
  \A i \in 0 .. msg_max - 1 : msg_list[i] = NIL \/ msg_list[i].id = i

\* a grown table with an empty slot below two messages
C12_Witness ==
  /\ err = "ok"
  /\ msg_max = MaxTable
  /\ msg_list[0] = NIL
  /\ msg_list[1] # NIL
  /\ msg_list[2] # NIL

\* msg_used is the number of messages in the table, and within 0 .. msg_max
UsedIsCount ==
  /\ msg_used = Cardinality(Live(msg_list, msg_max))
  /\ 0 <= msg_used
  /\ msg_used <= msg_max

\* C13: msg_used equals the number of non-nil slots and lies within
\* 0 .. msg_max, and msg_max never decreases while the client runs.
C13_UsedAndMax ==
  /\ []UsedIsCount
  /\ [][(err' = "ok" /\ last'.op # "rq_cleanup") => msg_max' >= msg_max]_vars

\* the table has grown to MaxTable slots and all its messages but one were
\* cleared
C13_Witness ==
  /\ err = "ok"
  /\ msg_max = MaxTable
  /\ msg_used = 1
  /\ last.op \in {"rq_reply", "rq_read_handler"}
  /\ msg_next >= 0

\* C14: a read that brings the REPLY (with ID and PAYLOAD) of an outbound
\* message that is in the table in state delivered does not abort: it calls
\* the message's reply_handler once if there is one, with the payload of the
\* reply, leaves the accumulator without payload, and clears the message;
\* for a message in another state it calls no reply_handler.
C14_ReplyAccepted ==
  [][\A c \in 1 .. Len(conns) : \A i \in Outbound(msg_list, msg_max) :
       (/\ conns[c].active > 0
        /\ last'.op = "rq_read_handler"
        /\ last'.c = c
        /\ last'.reads = <<Data(Reply(i), FALSE)>>)
         => IF msg_list[i].state = "delivered"
              THEN /\ err' = "ok"
                   /\ CallbacksOf(events')
                        = IF msg_list[i].reply_handler
                            THEN <<[ev |-> "reply_handler", msg |-> i,
                                    data |-> "re"]>>
                            ELSE <<>>
                   /\ conns'[c].data.payload = NIL
                   /\ msg_list'[i] = NIL
                   /\ msg_used' = msg_used - 1
              ELSE CallbacksOf(events') = <<>>]_vars

\* slot i holds a request the application sent with the noreply flag, and the
\* DELIVERED for it has arrived
NoreplyDelivered(i) ==
  /\ err = "ok"
  /\ i < msg_max
  /\ msg_list[i] # NIL
  /\ msg_list[i].conn = 0
  /\ msg_list[i].noreply = 1
  /\ msg_list[i].state = "delivered"

\* the event loop has no write and no connect callback to run: the client
\* does nothing more unless the peer sends or the application calls
Idle ==
  \A c \in 1 .. Len(conns) : ~conns[c].write_event /\ ~conns[c].connect_event

\* C15: an outbound message sent with the noreply flag does not stay in the
\* table once its DELIVERED has arrived: when the client has nothing left to
\* do without a further call of the application or data from the peer, no
\* such message is in the table.
C15_NoreplyCleared ==
  Idle => \A i \in 0 .. msg_max - 1 : ~NoreplyDelivered(i)

\* once the DELIVERED of a noreply request has arrived, nothing the running
\* client does takes the request out of the table, short of a REPLY for it
NoreplyStays ==
  [][\A i \in 0 .. msg_max - 1 :
       (/\ NoreplyDelivered(i)
        /\ err' = "ok"
        /\ last'.op # "rq_cleanup"
        /\ ~(last'.op = "rq_read_handler" /\ HasCmd(last'.reads, "REPLY")))
         => msg_list'[i] = msg_list[i]]_vars

\* the CONSUME sequence of the subscription asked for with the arguments a
ConsumeOf(a) ==
  <<Cmd("CLEAR")>>
  \o (IF a.exclusive # 0 THEN <<Cmd("EXCLUSIVE")>> ELSE <<>>)
  \o <<CmdStr("QUEUE", a.queue), CmdInt("MAX", a.max),
       CmdStr("PRIORITY", a.priority), Cmd("CONSUME")>>

\* C16: rq_consume for a queue that has a subscription changes nothing;
\* otherwise it appends one subscription, and sends its CONSUME sequence on
\* the head connection if and only if that connection is active and not
\* closing.
C16_Consume ==
  [][(last'.op = "rq_consume" /\ connlist # <<>>)
       => LET a == last'.a
              h == Head(connlist)
          IN  /\ err' = "ok"
              /\ IF \E k \in 1 .. Len(queues) : queues[k].queue = a.queue
                   THEN /\ queues' = queues
                        /\ conns' = conns
                        /\ events' = <<>>
                   ELSE /\ Len(queues') = Len(queues) + 1
                        /\ SubSeq(queues', 1, Len(queues)) = queues
                        /\ queues'[Len(queues')].queue = a.queue
                        /\ queues'[Len(queues')].max = a.max
                        /\ queues'[Len(queues')].priority = a.priority
                        /\ queues'[Len(queues')].exclusive = a.exclusive
                        /\ IF conns[h].active > 0 /\ conns[h].closing = 0
                             THEN /\ events' = <<Sent(h, ConsumeOf(a))>>
                                  /\ conns'[h].outbuf.b
                                       = Append(conns[h].outbuf.b, ConsumeOf(a))
                                  /\ \A c \in 1 .. Len(conns) :
                                       c # h => conns'[c] = conns[c]
                             ELSE conns' = conns /\ events' = <<>>]_vars

\* rq_consume has added an exclusive subscription to an earlier one and has
\* sent its CONSUME on the active head connection
C16_Witness ==
  /\ err = "ok"
  /\ last.op = "rq_consume"
  /\ last.a.exclusive # 0
  /\ Len(queues) = 2
  /\ queues[2].queue = last.a.queue
  /\ conns[Head(connlist)].active > 0
  /\ events = <<Sent(Head(connlist), ConsumeOf(last.a))>>

\* the sequence of the request m of the application, sent as message id
RequestOf(id, m) ==
  <<Cmd("CLEAR"), CmdInt("ID", id), CmdStr("QUEUE", m.queue),
    CmdStr("PAYLOAD", m.data)>>
  \o (IF m.noreply # 0 THEN <<Cmd("NOREPLY")>> ELSE <<>>)
  \o (IF m.broadcast # 0 THEN <<Cmd("BROADCAST")>> ELSE <<Cmd("REQUEST")>>)

\* C17: rq_send of a new outbound message, with the head connection active
\* and not closing, appends CLEAR, ID, QUEUE, PAYLOAD, [NOREPLY], then
\* BROADCAST or REQUEST to the outbuf of the head, stores the callbacks, and
\* leaves the message in the table in state new.
C17_Send ==
  [][(/\ last'.op = "rq_send"
      /\ connlist # <<>>
      /\ conns[Head(connlist)].active > 0
      /\ conns[Head(connlist)].closing = 0)
       => LET m == last'.m
              h == Head(connlist)
          IN  /\ err' = "ok"
              /\ msg_used' = msg_used + 1
              /\ \E i \in Live(msg_list', msg_max') :
                   /\ i >= msg_max \/ msg_list[i] = NIL
                   /\ msg_list'[i].id = i
                   /\ msg_list'[i].state = "new"
                   /\ msg_list'[i].conn = 0
                   /\ msg_list'[i].reply_handler = m.reply_handler
                   /\ msg_list'[i].fail_handler = FALSE
                   /\ events' = <<Sent(h, RequestOf(i, m))>>
                   /\ conns'[h].outbuf.b
                        = Append(conns[h].outbuf.b, RequestOf(i, m))]_vars

\* a broadcast was sent on the active head connection and is in the table in
\* state new
C17_Witness ==
  /\ err = "ok"
  /\ last.op = "rq_send"
  /\ last.m.broadcast = 1
  /\ events = <<Sent(Head(connlist), RequestOf(0, last.m))>>
  /\ msg_list[0] # NIL
  /\ msg_list[0].state = "new"
  /\ msg_list[0].broadcast = 1

\* C18: rq_send while the head connection is not active (none, connecting,
\* closing or shut down) does not abort and keeps the message in the table in
\* state new, to be sent once a connection is active.
C18_SendWithoutConn ==
  [][(/\ last'.op = "rq_send"
      /\ \/ connlist = <<>>
         \/ conns[Head(connlist)].active = 0
         \/ conns[Head(connlist)].closing # 0)
       => /\ err' = "ok"
          /\ msg_used' = msg_used + 1
          /\ \E i \in Live(msg_list', msg_max') :
               /\ msg_list'[i].state = "new"
               /\ msg_list'[i].queue.b = last'.m.queue]_vars

\* C19: in every state, no connection has both its connect event and its
\* read event registered.
C19_ConnectOrRead ==
  \A c \in 1 .. Len(conns) : ~(conns[c].connect_event /\ conns[c].read_event)

\* the connect callback has replaced the connect event of a connection by
\* its read event, while the next controller is known but not connected
C19_Witness ==
  /\ err = "ok"
  /\ last.op = "rq_connect_handler"
  /\ Len(conns) = 2
  /\ conns[last.c].read_event
  /\ ~conns[last.c].connect_event

\* C20: between the callbacks and the calls of the application, every active
\* connection has its write event registered exactly when its outbuf holds
\* data.
C20_WriteEventIffData ==
  \A c \in 1 .. Len(conns) :
    conns[c].active > 0
      => (conns[c].write_event
            <=> (conns[c].outbuf # NIL /\ conns[c].outbuf.b # <<>>))

\* the write callback has written a part of the outbuf of an active
\* connection: the rest is pending and the write event stays
C20_Witness ==
  /\ err = "ok"
  /\ last.op = "rq_write_handler"
  /\ conns[last.c].active > 0
  /\ conns[last.c].outbuf.b # <<>>
  /\ conns[last.c].write_event

\* the write callback has written all of the outbuf of an active connection
\* and has removed the write event
C20_Emptied ==
  /\ err = "ok"
  /\ last.op = "rq_write_handler"
  /\ conns[last.c].active > 0
  /\ conns[last.c].outbuf.b = <<>>
  /\ ~conns[last.c].write_event

\* C21: in every state, a connection has a socket exactly when its connect
\* is in progress (connect event registered) or it is active.
C21_HandleIffLive ==
  \A c \in 1 .. Len(conns) :
    (conns[c].handle # INVALID_HANDLE)
      <=> (conns[c].connect_event \/ conns[c].active > 0)

\* of two controllers one is active with its socket and the other one has
\* none
C21_Witness ==
  /\ err = "ok"
  /\ Len(conns) = 2
  /\ \E c, d \in 1 .. 2 :
       /\ conns[c].active > 0
       /\ conns[c].handle = Socket(c)
       /\ ~conns[c].connect_event
       /\ conns[d].handle = INVALID_HANDLE
       /\ conns[d].active = 0

\* a connection is connecting: socket and connect event, not active
C21_Connecting ==
  /\ err = "ok"
  /\ \E c \in 1 .. Len(conns) :
       /\ conns[c].connect_event
       /\ conns[c].handle = Socket(c)
       /\ conns[c].active = 0

\* C22: in every state, for the accumulator of an active connection, a mask
\* bit that is set has its field populated: the PAYLOAD bit a payload
\* buffer, the QUEUE bit a queue name; also after a REQUEST or a REPLY has
\* moved the payload buffer into a message.
C22_MaskImpliesField ==
  \A c \in 1 .. Len(conns) :
    (conns[c].active > 0 /\ conns[c].data # NIL)
      => /\ "PAYLOAD" \in conns[c].data.mask => conns[c].data.payload # NIL
         /\ "QUEUE" \in conns[c].data.mask => conns[c].data.queue.b # ""

\* C23: a read callback that receives a PONG and nothing else does not
\* abort and leaves the connections (state, accumulator, buffers), the
\* subscriptions and the message table as they were.
C23_PongNoOp ==
  [][(/\ last'.op = "rq_read_handler"
      /\ last'.reads = <<Data(<<Cmd("PONG")>>, FALSE)>>)
       => /\ err' = "ok"
          /\ conns' = conns
          /\ connlist' = connlist
          /\ queues' = queues
          /\ msg_list' = msg_list
          /\ msg_max' = msg_max
          /\ msg_used' = msg_used
          /\ events' = <<>>]_vars

\* the blocks the operation has passed to rq_senddata for connection c, in
\* the order of the calls
SubmittedOn(evs, c) ==
  LET sel == SelectSeq(evs, LAMBDA e : e.ev = "send" /\ e.conn = c)
  IN  [k \in 1 .. Len(sel) |-> sel[k].data]

\* the blocks the operation op has written to the socket of connection c
\* out of the outbuf buf: send() takes them from the front
WrittenBy(op, c, buf) ==
  IF op.op = "rq_write_handler" /\ op.c = c /\ op.res.res = "sent"
    THEN SubSeq(buf, 1, op.res.n)
    ELSE <<>>

\* C24: outbound FIFO.  For a connection that is active after a step, what
\* the step wrote followed by the outbuf it leaves is the outbuf it found
\* (nothing, if the connection was activated by the step) followed by what
\* the step passed to rq_senddata.  So what has been written since the
\* activation, followed by the outbuf, is always what was submitted, in
\* order: a partial write removes the written prefix and keeps the tail, and
\* EAGAIN leaves the outbuf as it was.
C24_OutboundFifo ==
  [][\A c \in 1 .. Len(conns) :
       (err' = "ok" /\ ~cleaned' /\ conns'[c].active > 0)
         => WrittenBy(last', c, conns[c].outbuf.b) \o conns'[c].outbuf.b
              = (IF conns[c].active > 0 THEN conns[c].outbuf.b ELSE <<>>)
                \o SubmittedOn(events', c)]_vars

\* a write has taken the first of several blocks of the outbuf and left the
\* rest
C24_Witness ==
  /\ err = "ok"
  /\ last.op = "rq_write_handler"
  /\ last.res = [res |-> "sent", n |-> 1]
  /\ conns[last.c].active > 0
  /\ Len(conns[last.c].outbuf.b) = 1
  /\ conns[last.c].outbuf.b[1][Len(conns[last.c].outbuf.b[1])].cmd = "REPLY"

\* the units the reads of one callback have brought, in order
RECURSIVE AllData(_)
AllData(reads) ==
  IF reads = <<>> THEN <<>>
  ELSE (IF Head(reads).res = "data" THEN Head(reads).data ELSE <<>>)
       \o AllData(Tail(reads))

\* the received units not yet consumed: the carry-over, then the new ones
Offered(inbuf, reads) ==
  (IF inbuf = NIL THEN <<>> ELSE inbuf.b) \o AllData(reads)

\* the commands that are complete in the units, in order
Complete(units) ==
  LET sel == SelectSeq(units, LAMBDA u : IsWhole(u) \/ u.half = 2)
  IN  [k \in 1 .. Len(sel) |-> IF IsWhole(sel[k]) THEN sel[k] ELSE sel[k].of]

\* the rest of the units: the first half of a command at their end
Rest(units) ==
  IF units # <<>> /\ After(units[Len(units)]) # NIL
    THEN Buf(<<units[Len(units)]>>)
    ELSE NIL

\* what the handlers of the commands leave behind
Effect(s) == <<s.err, s.conns[1].data, s.conns[1].outbuf, s.events>>

\* C25: inbound order.  However the stream is cut into reads, a read
\* callback has the effect of the handlers of the complete commands of the
\* carry-over followed by the new data, called once each in stream order; the
\* unfinished rest is carried in inbuf, and inbuf is nil when there is none.
C25_InboundOrder ==
  [][last'.op = "rq_read_handler"
       => /\ conns'[1].inbuf
               = Rest(Offered(conns[1].inbuf, last'.reads))
          /\ <<err', conns'[1].data, conns'[1].outbuf, events'>>
               = Effect(DispatchAll(St, 1,
                                    Complete(Offered(conns[1].inbuf,
                                                     last'.reads)),
                                    Silent, "fault"))]_vars

\* a callback of two reads has finished the command the carry-over had begun
\* and carries the beginning of another one
C25_Witness ==
  /\ err = "ok"
  /\ last.op = "rq_read_handler"
  /\ Len(last.reads) = 2
  /\ last.reads[2].res = "data"
  /\ ~IsWhole(last.reads[1].data[1])
  /\ last.reads[1].data[1].half = 2
  /\ conns[1].inbuf # NIL
  /\ conns[1].data.id = 2

\* C26: a connect callback that finds a non-zero SO_ERROR does not abort and
\* closes the connection: no socket, not active, nothing sent on it; with
\* more than one controller it goes to the tail of the list, and the new
\* head is connecting.
C26_FailedConnectCloses ==
  [][(last'.op = "rq_connect_handler" /\ last'.error # 0)
       => LET c == last'.c
          IN  /\ err' = "ok"
              /\ conns'[c].active = 0
              /\ conns'[c].handle = INVALID_HANDLE \/ Len(connlist) = 1
              /\ events' = <<>>
              /\ Len(connlist) > 1 => connlist' = Rotate(connlist, c)
              /\ conns'[Head(connlist')].connect_event]_vars

\* a connect that timed out, with a subscription to replay, sends nothing
\* (violated: the connection is made active and the CONSUME is queued)
C26_TimedOut ==
  [][(last'.op = "rq_connect_handler" /\ last'.error = ETIMEDOUT
      /\ queues # <<>>)
       => events' = <<>>]_vars

\* C27: when the first thing a connection receives after its activation is
\* the CONSUMING of a subscribed queue (the acknowledgement of the CONSUME
\* sent or replayed on it), the read callback does not abort, the queue-id
\* is recorded in the subscription, and the accepted callback, if there is
\* one, is called exactly once.
C27_ConsumingRecorded ==
  [][\A k \in 1 .. Len(queues) : \A qid \in 1 .. 2 :
       (/\ last'.op = "rq_read_handler"
        /\ last'.reads = <<Data(Consuming(queues[k].queue, qid), FALSE)>>
        /\ conns[last'.c].data = DataInit)
         => /\ err' = "ok"
            /\ queues'[k].qid = qid
            /\ events' = IF queues[k].accepted
                           THEN <<[ev |-> "accepted",
                                   queue |-> queues[k].queue, qid |-> qid]>>
                           ELSE <<>>]_vars

\* one of the reads brings the command QUEUE with the name q
Targets(reads, q) ==
  \E k \in 1 .. Len(reads) :
    reads[k].res = "data"
    /\ \E j \in 1 .. Len(reads[k].data) : reads[k].data[j] = CmdStr("QUEUE", q)

\* an inbound message that is in the table between two operations is in
\* state delivered and expects a reply
InboundDelivered ==
  \A i \in Live(msg_list, msg_max) :
    msg_list[i].conn # 0
      => msg_list[i].state = "delivered" /\ msg_list[i].noreply = 0

\* the read callback brings a REQUEST for the subscribed queue q1, every
\* subscription being acknowledged and the accumulator holding no payload:
\* the handler is called once; afterwards the message is gone if the handler
\* has replied or the request was NOREPLY, and is in the table as delivered
\* otherwise
HandledRequest ==
  (/\ last'.op = "rq_read_handler"
   /\ HasCmd(last'.reads, "REQUEST")
   /\ Targets(last'.reads, "q1")
   /\ ByName(St, "q1") # 0
   /\ \A k \in 1 .. Len(queues) : queues[k].qid > 0
   /\ conns[last'.c].data.payload = NIL)
    => /\ err' = "ok"
       /\ Len(HandlerCalls(events')) = 1
       /\ LET i == HandlerCalls(events')[1].msg
          IN  IF last'.app.reply \/ HasCmd(last'.reads, "NOREPLY")
                THEN /\ i >= msg_max' \/ msg_list'[i] = NIL
                     /\ msg_used' = msg_used
                ELSE /\ msg_list'[i] # NIL
                     /\ msg_list'[i].state = "delivered"
                     /\ msg_list'[i].conn = last'.c
                     /\ msg_used' = msg_used + 1

\* a later rq_reply to a delivered message clears it at once
RepliedLater ==
  last'.op = "rq_reply"
    => /\ err' = "ok"
       /\ msg_list'[last'.msg] = NIL
       /\ msg_used' = msg_used - 1

\* C28: after the handler of an inbound REQUEST has returned, the message is
\* cleared if it was replied to in the handler or if the request was
\* NOREPLY; otherwise it stays in the table in state delivered until a later
\* rq_reply, which clears it at once.  Between operations an inbound message
\* is in no other state than delivered.
C28_InboundLifecycle ==
  []InboundDelivered /\ [][HandledRequest /\ RepliedLater]_vars

\* the handler has kept a request without replying: the message is in the
\* table as delivered
C28_Witness ==
  /\ err = "ok"
  /\ last.op = "rq_read_handler"
  /\ HasCmd(last.reads, "REQUEST")
  /\ ~last.app.reply
  /\ Len(HandlerCalls(events)) = 1
  /\ msg_list[HandlerCalls(events)[1].msg] # NIL
  /\ msg_list[HandlerCalls(events)[1].msg].state = "delivered"

\* a later rq_reply has cleared the delivered message
C28_Replied ==
  /\ err = "ok"
  /\ last.op = "rq_reply"
  /\ msg_list[last.msg] = NIL
  /\ msg_used = 0

\* C29: rq_shutdown of an active connection leaves the CLOSING it has sent
\* to be written: the call does not abort, and after it the socket is still
\* open with the CLOSING at the end of the outbuf and the write event set,
\* with messages in flight as well as with an empty table.
C29_ClosingWritten ==
  [][\A c \in 1 .. Len(conns) :
       (/\ last'.op = "rq_shutdown"
        /\ conns[c].active > 0
        /\ conns[c].closing = 0
        /\ conns[c].shutdown = 0)
         => /\ err' = "ok"
            /\ conns'[c].handle # INVALID_HANDLE
            /\ conns'[c].write_event
            /\ conns'[c].outbuf.b
                 = Append(conns[c].outbuf.b, <<Cmd("CLOSING")>>)]_vars

\* rq_shutdown with messages in flight leaves the CLOSING to be written
ClosingKeptWhilePending ==
  [][\A c \in 1 .. Len(conns) :
       (/\ last'.op = "rq_shutdown"
        /\ msg_used > 0
        /\ conns[c].active > 0
        /\ conns[c].closing = 0
        /\ conns[c].shutdown = 0)
         => /\ err' = "ok"
            /\ conns'[c].handle # INVALID_HANDLE
            /\ conns'[c].write_event
            /\ conns'[c].outbuf.b
                 = Append(conns[c].outbuf.b, <<Cmd("CLOSING")>>)]_vars

\* C30: a connect is attempted on the head of the list only, and only on a
\* head that is not shut down, not closing and not active: in every state a
\* connection with a socket is the head of the list, and a connecting one
\* has a socket and is neither shut down, closing nor active.
C30_OnlyHeadConnects ==
  \A c \in 1 .. Len(conns) :
    /\ conns[c].handle # INVALID_HANDLE => c = Head(connlist)
    /\ conns[c].connect_event
         => /\ conns[c].handle # INVALID_HANDLE
            /\ conns[c].shutdown = 0
            /\ conns[c].closing = 0
            /\ conns[c].active = 0

\* after the loss of the connection to the first controller, the second one
\* is the head and connecting, and the first one has no socket
C30_Witness ==
  /\ err = "ok"
  /\ connlist = <<2, 1>>
  /\ conns[2].connect_event
  /\ conns[2].handle = Socket(2)
  /\ conns[1].handle = INVALID_HANDLE

\* the operation op is a callback in which the connection op.c is lost: a
\* connect that failed, a read that returned 0 or an error, a write that
\* returned 0 or an error
IsLoss(op) ==
  \/ op.op = "rq_connect_handler" /\ op.error # 0
  \/ op.op = "rq_read_handler" /\ op.reads \in {<<Eof>>, <<Error>>}
  \/ op.op = "rq_write_handler" /\ op.res.res \in {"zero", "error"}

\* C31: round-robin failover.  With two controllers and no shutdown
\* requested, every loss of the connection to a controller (failed connect,
\* read or write that finds the connection gone) moves that controller to
\* the tail of the list and starts a connect to the new head, the client
\* staying alive; so consecutive losses attempt the controllers in turn.
C31_RoundRobin ==
  [][(/\ IsLoss(last')
      /\ Len(connlist) = 2
      /\ ~ShutdownCalled)
       => /\ err' = "ok"
          /\ connlist' = Rotate(connlist, last'.c)
          /\ Head(connlist') # last'.c
          /\ conns'[Head(connlist')].connect_event
          /\ conns'[last'.c].handle = INVALID_HANDLE]_vars

\* a read that finds the connection gone, with no message in the table:
\* the controller goes to the tail and the other one is attempted
LossOnReadRotates ==
  [][(/\ last'.op = "rq_read_handler"
      /\ last'.reads \in {<<Eof>>, <<Error>>}
      /\ Len(connlist) = 2
      /\ msg_used = 0
      /\ ~ShutdownCalled)
       => /\ err' = "ok"
          /\ connlist' = Rotate(connlist, last'.c)
          /\ conns'[Head(connlist')].connect_event
          /\ conns'[last'.c].handle = INVALID_HANDLE]_vars

\* C32: the PAYLOAD setter succeeds in every accumulator state of an active
\* connection: no read callback ends in the assertion of cmdPayload, also
\* when a CLEAR has followed a PAYLOAD that no verb took.
C32_PayloadSetter == err # "cmdPayload:1415"

\* C33: a write callback on an active connection whose send() returns 0 or
\* an error closes the connection and leaves it consistent: the call does
\* not abort, the write event is unregistered, the outbuf is empty, and the
\* connection has no socket unless a new connect to it was started.
C33_WriteErrorCloses ==
  [][(/\ last'.op = "rq_write_handler"
      /\ last'.res.res \in {"zero", "error"})
       => /\ err' = "ok"
          /\ ~conns'[last'.c].write_event
          /\ ~conns'[last'.c].read_event
          /\ conns'[last'.c].active = 0
          /\ conns'[last'.c].outbuf.b = <<>>
          /\ \/ conns'[last'.c].handle = INVALID_HANDLE
             \/ conns'[last'.c].connect_event]_vars

\* the empty slots of the table
NilSlots == {i \in 0 .. msg_max - 1 : msg_list[i] = NIL}

\* the slot the next message is to take: the hinted one, else the lowest
\* empty one, else the one the table grows by
Chosen ==
  IF msg_used < msg_max /\ msg_next >= 0 THEN msg_next
  ELSE IF msg_used < msg_max
    THEN CHOOSE i \in NilSlots : \A j \in NilSlots : i <= j
  ELSE msg_max

\* rq_msg_new, as the first thing a request of the application does
Placed ==
  last'.op = "rq_send"
    => /\ err' = "ok"
       /\ msg_max' = IF msg_used < msg_max THEN msg_max ELSE msg_max + 1
       /\ msg_next' = IF msg_used < msg_max /\ msg_next >= 0 THEN -1
                      ELSE msg_next
       /\ msg_used' = msg_used + 1
       /\ msg_list'[Chosen] # NIL
       /\ msg_list'[Chosen].id = Chosen
       /\ msg_list'[Chosen].data.b = last'.m.data
       /\ \A j \in 0 .. msg_max - 1 : j # Chosen => msg_list'[j] = msg_list[j]

\* slot i is cleared and nothing else changes in the table
ClearedSlot(i) ==
  /\ err' = "ok"
  /\ msg_list' = [msg_list EXCEPT ![i] = NIL]
  /\ msg_next' = i
  /\ msg_used' = msg_used - 1
  /\ msg_max' = msg_max

\* rq_msg_clear, as the last thing a later rq_reply and the REPLY of the
\* controller do
Freed ==
  /\ last'.op = "rq_reply" => ClearedSlot(last'.msg)
  /\ (last'.op = "rq_read_handler" /\ HasCmd(last'.reads, "REPLY"))
       => ClearedSlot(last'.reads[1].data[2].n)

\* C34: rq_msg_new places the message at msg_next and sets msg_next to -1
\* if there is room and a hint; else at the lowest nil slot if there is
\* room; else it grows the table by one slot and places it there.  The id is
\* the index, msg_used grows by 1 and no other slot changes.  rq_msg_clear
\* sets the slot to nil and msg_next to the freed id, and takes 1 from
\* msg_used.
C34_SlotSelection == [][Placed /\ Freed]_vars

\* a request has been placed in slot 0 of a table grown to three slots, of
\* which slot 2 is empty, and no hint is left
C34_Witness ==
  /\ err = "ok"
  /\ last.op = "rq_send"
  /\ msg_max = 3
  /\ msg_used = 2
  /\ msg_next = -1
  /\ msg_list[2] = NIL
  /\ msg_list[0] # NIL
  /\ msg_list[0].data.b = last.m.data

\* C35: while the client exists, msg_next is -1 or the index of a nil slot
\* of the table; so no live message has msg_next as its id, and the
\* assertions of rq_msg_new and cmdReply about the hint never fail.
C35_HintValid ==
  /\ ~cleaned
       => \/ msg_next = -1
          \/ /\ msg_next \in 0 .. msg_max - 1
             /\ msg_list[msg_next] = NIL
  /\ \A i \in Live(msg_list, msg_max) : msg_list[i].id # msg_next
  /\ err \notin {"rq_msg_new:1538", "rq_msg_new:1539", "cmdReply:1271"}

\* a reply has freed slot 1 between two live messages: the hint names it
C35_Witness ==
  /\ err = "ok"
  /\ msg_max = 3
  /\ msg_used = 2
  /\ msg_next = 1
  /\ msg_list[1] = NIL
  /\ msg_list[0] # NIL
  /\ msg_list[2] # NIL

====
